---------------------------- MODULE Spec2Model ----------------------------
(***************************************************************************)
(* Model of the heuristic reconciliation pipeline of backend/main.py:      *)
(* value normalizer, document classifier, tax-statement extractor,         *)
(* reconciliation engine (perform_audit_with_breakdown) and the batch      *)
(* handler analyze_files with its thread pool.                             *)
(*                                                                         *)
(* Money is an integer number of 1/1000 CHF, so that the sub-cent values   *)
(* on which round(x, 2) acts can be told apart.  An optional value         *)
(* (Python None / a value) is the empty or the one-element sequence.       *)
(***************************************************************************)
EXTENDS Integers, Sequences, FiniteSets, TLC

VARIABLES
    \* ---- inputs and result of perform_audit_with_breakdown ----
    tax_docs,       \* list of tax facts            (main.py:1456)
    fibu_docs,      \* list of ledger facts         (main.py:1457)
    er_docs,        \* list of income-statement excerpts (main.py:1458)
    bilanz_docs,    \* list of balance-sheet facts  (main.py:1459)
    audit_results,  \* list returned by perform_audit_with_breakdown
    pc,             \* position of the handler / driver
    \* ---- one document in front of an extractor ----
    doc_tables,     \* its table grid: tables of rows of cells
    doc_lines,      \* its page text, line by line
    parsed,         \* what the extractor returned for it (None before)
    \* ---- one /analyze request ----
    files,          \* the uploaded files met so far by the loop, each with
                    \* its document, its parse task and its outcome
    response        \* the AnalysisResponse returned (None before)

auditVars == <<tax_docs, fibu_docs, er_docs, bilanz_docs, audit_results>>
docVars == <<doc_tables, doc_lines, parsed>>
batchVars == <<files, response>>
vars == <<tax_docs, fibu_docs, er_docs, bilanz_docs, audit_results, pc,
          doc_tables, doc_lines, parsed, files, response>>

-----------------------------------------------------------------------------
(* Optional values *)
None == <<>>
Some(x) == <<x>>
IsNone(o) == o = <<>>
IsSome(o) == o # <<>>
Val(o) == o[1]

Abs(x) == IF x < 0 THEN -x ELSE x

RECURSIVE SumAmounts(_)
\* Python sum(item.amount for item in items)
SumAmounts(items) ==
    IF items = <<>> THEN 0
    ELSE items[1].amount + SumAmounts(Tail(items))

\* [f(s[i]) : i in order]
MapSeq(s, F(_)) == [i \in 1..Len(s) |-> F(s[i])]

-----------------------------------------------------------------------------
(* Bounds *)
MaxFacts == 3

(* 0.01 CHF, the MATCH threshold, in 1/1000 CHF *)
Threshold == 10

\* the sites of round(x, 2) in one rule: the difference and the two totals
RoundSites == {"diff", "tax", "fibu"}

\* round(x, 2) of a non-negative float.  A float that prints as d.dd5 is
\* not exactly d.dd5, so Python rounds it up or down depending on its binary
\* representation: up is the direction taken for such a value.
Round2(x, up) ==
    LET r == x % 10
    IN  IF r < 5 THEN x - r
        ELSE IF r > 5 THEN x - r + 10
        ELSE IF up THEN x - r + 10 ELSE x - r

-----------------------------------------------------------------------------
(* Audit logic *)

calculate_status_strict_le(tax_value, fibu_value, up) ==
    IF IsSome(tax_value) /\ IsSome(fibu_value)
    THEN LET diff == Round2(Abs(Val(tax_value) - Val(fibu_value)), up)
         IN  [status |-> IF diff <= Threshold THEN "MATCH" ELSE "MISMATCH",
              diff |-> diff]
    ELSE IF IsNone(tax_value) /\ IsNone(fibu_value)
    THEN [status |-> "NO_DATA", diff |-> 0]
    ELSE [status |-> "INCOMPLETE", diff |-> 0]

calculate_status_unrounded(tax_value, fibu_value, up) ==
    IF IsSome(tax_value) /\ IsSome(fibu_value)
    THEN LET raw == Abs(Val(tax_value) - Val(fibu_value))
         IN  [status |-> IF raw < Threshold THEN "MATCH" ELSE "MISMATCH",
              diff |-> Round2(raw, up)]
    ELSE IF IsNone(tax_value) /\ IsNone(fibu_value)
    THEN [status |-> "NO_DATA", diff |-> 0]
    ELSE [status |-> "INCOMPLETE", diff |-> 0]

calculate_status(tax_value, fibu_value, up) ==
    IF IsSome(tax_value) /\ IsSome(fibu_value)
    THEN LET diff == Round2(Abs(Val(tax_value) - Val(fibu_value)), up)
         IN  [status |-> IF diff < Threshold THEN "MATCH" ELSE "MISMATCH",
              diff |-> diff]
    ELSE IF IsNone(tax_value) /\ IsNone(fibu_value)
    THEN [status |-> "NO_DATA", diff |-> 0]
    ELSE [status |-> "INCOMPLETE", diff |-> 0]

get_difference_hint_le(diff, rule) ==
    IF diff <= Threshold THEN None ELSE Some([rule |-> rule, diff |-> diff])

\* the hint is the rule's template with the difference interpolated
get_difference_hint(diff, rule) ==
    IF diff < Threshold THEN None ELSE Some([rule |-> rule, diff |-> diff])

\* doc.get("restanzen_gemeinde") is not None and doc["restanzen_gemeinde"] > 0
TaxFactCounts(doc) ==
    IsSome(doc.restanzen_gemeinde) /\ Val(doc.restanzen_gemeinde) > 0

TaxItem(doc) ==
    [amount |-> Val(doc.restanzen_gemeinde), source |-> doc.filename,
     doc_type |-> doc.type]

tax_items_for_ignoring_sign(docs, negative) ==
    MapSeq(SelectSeq(docs, LAMBDA d : TaxFactCounts(d)), TaxItem)

\* the loop over tax_docs: tax_items_2002 (negative) / tax_items_1012
tax_items_for(docs, negative) ==
    MapSeq(SelectSeq(docs, LAMBDA d :
               TaxFactCounts(d) /\ d.is_negative = negative),
           TaxItem)

FibuItem(account, doc) ==
    [account |-> account, amount |-> Val(doc.saldo), source |-> doc.filename,
     label |-> "Kontoauszug Saldo"]

BilanzItem(label, value, doc) ==
    [account |-> label, amount |-> Val(value), source |-> doc.filename,
     label |-> "Bilanz Bestand"]

BilanzField(doc, account) ==
    IF account = "1012.00" THEN doc.account_1012 ELSE doc.account_2002

BilanzLabel(account) ==
    IF account = "1012.00" THEN "1012.xx" ELSE "2002.xx"

LedgerItemsOf(fibu, account) ==
    MapSeq(SelectSeq(fibu, LAMBDA d :
               d.account = Some(account) /\ IsSome(d.saldo)),
           LAMBDA d : FibuItem(account, d))

BilanzItemsOf(bilanz, account) ==
    MapSeq(SelectSeq(bilanz, LAMBDA d : IsSome(BilanzField(d, account))),
           LAMBDA d : BilanzItem(BilanzLabel(account),
                                 BilanzField(d, account), d))

fibu_items_for_always_bilanz(fibu, bilanz, account) ==
    LedgerItemsOf(fibu, account) \o BilanzItemsOf(bilanz, account)

\* fibu_items_r805 / fibu_items_r806: the ledger facts of the account, or,
\* when there is none, the balance-sheet values
fibu_items_for(fibu, bilanz, account) ==
    LET fromLedger == LedgerItemsOf(fibu, account)
    IN  IF fromLedger # <<>> THEN fromLedger
        ELSE BilanzItemsOf(bilanz, account)

\* sum(...) if items else None
TotalOf(items) == IF items # <<>> THEN Some(SumAmounts(items)) ELSE None

\* round(total, 2) if total else None: None and 0.0 are both falsy
ReportedTotal(total, up) ==
    IF IsSome(total) /\ Val(total) # 0
    THEN Some(Round2(Val(total), up)) ELSE None

audit_rule(rule, account, negative, tax, fibu, bilanz, up) ==
    LET tax_items == tax_items_for(tax, negative)
        fibu_items == fibu_items_for(fibu, bilanz, account)
        tax_total == TotalOf(tax_items)
        fibu_total == TotalOf(fibu_items)
        st == calculate_status(tax_total, fibu_total, up["diff"])
    IN  [rule |-> rule,
         status |-> st.status,
         difference |-> st.diff,
         tax_total |-> ReportedTotal(tax_total, up["tax"]),
         fibu_total |-> ReportedTotal(fibu_total, up["fibu"]),
         hint |-> IF st.status = "MISMATCH"
                  THEN get_difference_hint(st.diff, rule) ELSE None,
         tax_items |-> tax_items,
         fibu_items |-> fibu_items,
         \* the locals tax_total / fibu_total handed to calculate_status
         local_tax_total |-> tax_total,
         local_fibu_total |-> fibu_total]

perform_audit_only_r805(tax, fibu, er, bilanz, up) ==
    << audit_rule("R805", "1012.00", FALSE, tax, fibu, bilanz, up) >>

perform_audit_with_breakdown(tax, fibu, er, bilanz, up) ==
    << audit_rule("R805", "1012.00", FALSE, tax, fibu, bilanz, up),
       audit_rule("R806", "2002.00", TRUE, tax, fibu, bilanz, up) >>

-----------------------------------------------------------------------------
(* Monetary value normalizer *)

\* A token is a string seen through what the normalizer reads of it:
\*   kind   "empty" (None or ""), "punct" (one character such as "."),
\*          "text" (no digit), "num" (digits in Swiss formatting)
\*   sign   "none", "lead" (-x), "trail" (x-), "paren" ((x))
\*   mag    the magnitude written, in 1/1000 CHF
\*   dec    the number of decimals written (0 to 3)
\*   thou   thousands separator "none", "apos" (') or "comma"
\*   decsep decimal separator "dot" or "comma"
\*   pct    a % sign follows;  chf  "none", "prefix" (CHF x), "suffix" (x CHF)
Tok(kind, sign, mag, dec, thou, decsep, pct, chf) ==
    [kind |-> kind, sign |-> sign, mag |-> mag, dec |-> dec, thou |-> thou,
     decsep |-> decsep, pct |-> pct, chf |-> chf]

EmptyTok == Tok("empty", "none", 0, 0, "none", "dot", FALSE, "none")
TextTok  == Tok("text", "none", 0, 0, "none", "dot", FALSE, "none")
PunctTok == Tok("punct", "none", 0, 0, "none", "dot", FALSE, "none")
\* a plain amount with two decimals, apostrophes as thousands separators
Money(sign, mag) == Tok("num", sign, mag, 2, "apos", "dot", FALSE, "none")
\* a bare integer such as a row number
IntTok(n) == Tok("num", "none", n * 1000, 0, "none", "dot", FALSE, "none")

\* len(text.strip()) < 2: a single digit and nothing else
OneChar(t) ==
    /\ t.mag < 10000 /\ t.dec = 0 /\ t.sign = "none"
    /\ ~t.pct /\ t.chf = "none"

\* a thousands separator is written only from 1'000 on
HasThousandsSep(t) == t.thou # "none" /\ t.mag >= 1000000

\* re.match(r'^\d{4}\.\d{2}$', text) after CHF, blanks, parentheses and
\* minus signs were removed
RowRefPattern(t) ==
    /\ t.mag >= 1000000 /\ t.mag < 10000000
    /\ t.dec = 2 /\ t.decsep = "dot"
    /\ ~HasThousandsSep(t)
    /\ ~t.pct

\* the sign test with the leading minus only
TokenIsNegative_lead_only(t) == t.sign = "lead" /\ t.chf # "prefix"

\* text.startswith('-') or startswith('(') or endswith('-') or endswith(')')
\* on the stripped token: a CHF prefix hides a leading sign, a CHF suffix a
\* trailing one
TokenIsNegative(t) ==
    \/ t.sign = "lead" /\ t.chf # "prefix"
    \/ t.sign = "trail" /\ t.chf # "suffix"
    \/ t.sign = "paren"

\* float(number_str) after the separators were normalised: apostrophes
\* dropped; a comma without a dot becomes the decimal point; with a dot the
\* commas are dropped
ParsedMagnitude(t) ==
    IF t.thou = "comma" /\ HasThousandsSep(t)
          /\ (t.dec = 0 \/ t.decsep = "comma")
    THEN \* "1,234" -> "1.234"; "1,234,567" -> "1.234.567" does not parse
         IF t.dec = 0 /\ t.mag < 1000000000 THEN Some(t.mag \div 1000)
         ELSE None
    ELSE Some(t.mag)

extract_monetary_value(t) ==
    IF t.kind # "num" THEN None
    ELSE IF OneChar(t) THEN None
    ELSE IF RowRefPattern(t) THEN None
    ELSE IF t.pct THEN None
    ELSE LET v == ParsedMagnitude(t)
         IN  IF IsNone(v) THEN None
             ELSE IF TokenIsNegative(t) THEN Some(-Val(v)) ELSE v

-----------------------------------------------------------------------------
(* Tax statement parsing *)

\* A cell is a token and whether its text contains "politische gemeinde".
Cell(tok, gemeinde) == [tok |-> tok, gemeinde |-> gemeinde]
\* `if cell`: the cell is neither None nor ""
CellTruthy(c) == c.tok.kind # "empty"

\* A row is its cells and the phrases its joined lowercased text contains.
Row(kw, cells) == [kw |-> kw, cells |-> cells]

\* int(first_cell): the first cell parses as an integer
RowNum(row) ==
    LET t == row.cells[1].tok
    IN  IF /\ t.kind = "num" /\ t.dec = 0 /\ ~t.pct /\ t.chf = "none"
           /\ ~HasThousandsSep(t) /\ t.sign \in {"none", "lead"}
           /\ ~row.cells[1].gemeinde
        THEN Some(IF t.sign = "lead" THEN -(t.mag \div 1000)
                  ELSE t.mag \div 1000)
        ELSE None

\* column_index is 0-based, as in the source
extract_value_from_row(row, column_index) ==
    IF row.cells # <<>> /\ Len(row.cells) > column_index
    THEN LET cell == row.cells[column_index + 1]
         IN  IF CellTruthy(cell) THEN extract_monetary_value(cell.tok)
             ELSE None
    ELSE None

\* the default target column
DefaultGemeindeCol == 4
\* table[:5]
HeaderRows == 5

\* data[...] = value; abs(value); value < 0
SetFact(data, value) ==
    [data EXCEPT !.raw_restanzen = Some(value),
                 !.restanzen_gemeinde = Some(Abs(value)),
                 !.is_negative = value < 0]

\* the first cell of the row that names the target column, if any
HeaderColOfRow(row, col) ==
    LET hits == { i \in 1..Len(row.cells) :
                    CellTruthy(row.cells[i]) /\ row.cells[i].gemeinde }
    IN  IF hits = {} THEN col
        ELSE (CHOOSE i \in hits : \A j \in hits : i <= j) - 1

RECURSIVE HeaderCol(_, _, _)
\* for row in table[:5]: ... gemeinde_col = i; break
HeaderCol(rows, n, col) ==
    IF rows = <<>> \/ n = 0 THEN col
    ELSE HeaderCol(Tail(rows), n - 1, HeaderColOfRow(rows[1], col))

\* the body of `for row in table` with the roll-forward test of row 45 left out
ProcessRow_vortrag_as_amount(row, data, col, doc_type) ==
    IF row.cells = <<>> \/ ~CellTruthy(row.cells[1]) THEN data
    ELSE
    LET row_num == RowNum(row)
        value == extract_value_from_row(row, col)
    IN  IF row_num = Some(51) \/ row_num = Some(45) \/ row_num = Some(44)
        THEN IF IsSome(value) THEN SetFact(data, Val(value)) ELSE data
        ELSE data

\* the body of `for row in table` for one row
ProcessRow(row, data, col, doc_type) ==
    IF row.cells = <<>> \/ ~CellTruthy(row.cells[1]) THEN data
    ELSE
    LET row_num == RowNum(row)
        value == extract_value_from_row(row, col)
    IN  IF \/ row_num = Some(51)
           \/ (doc_type = "SR" /\ "total restanzen" \in row.kw
                 /\ "vortrag" \notin row.kw)
        THEN IF IsSome(value) THEN SetFact(data, Val(value)) ELSE data
        ELSE IF row_num = Some(45) \/ "total restanzen" \in row.kw
        THEN IF "vortrag" \in row.kw
             THEN IF IsSome(value)
                  THEN [data EXCEPT !.restanzenvortrag_gemeinde = value]
                  ELSE data
             ELSE IF doc_type = "JA"
             THEN IF IsSome(value) THEN SetFact(data, Val(value)) ELSE data
             ELSE data
        ELSE IF \/ row_num = Some(44)
                \/ (doc_type = "NAST"
                      /\ "total restanzen nachsteuern" \in row.kw)
        THEN IF IsSome(value) THEN SetFact(data, Val(value)) ELSE data
        ELSE IF \/ row_num = Some(38)
                \/ "restanzenvortrag inkl. zinsen" \in row.kw
        THEN IF IsSome(value)
             THEN LET d1 == [data EXCEPT !.restanzenvortrag_gemeinde = value]
                  IN  IF IsNone(data.restanzen_gemeinde) /\ doc_type = "NAST"
                      THEN SetFact(d1, Val(value))
                      ELSE d1
             ELSE data
        ELSE data

RECURSIVE ProcessRows(_, _, _, _)
ProcessRows(rows, data, col, doc_type) ==
    IF rows = <<>> THEN data
    ELSE ProcessRows(Tail(rows), ProcessRow(rows[1], data, col, doc_type),
                     col, doc_type)

RECURSIVE ProcessTables(_, _, _, _)
\* gemeinde_col is set before the loop over the tables and kept across them
ProcessTables(tables, data, col, doc_type) ==
    IF tables = <<>> THEN data
    ELSE LET c == HeaderCol(tables[1], HeaderRows, col)
         IN  ProcessTables(Tail(tables),
                           ProcessRows(tables[1], data, c, doc_type),
                           c, doc_type)

RECURSIVE ProcessTablesCol(_, _)
\* gemeinde_col after the header rows of the last of the tables were read
ProcessTablesCol(tables, col) ==
    IF tables = <<>> THEN col
    ELSE ProcessTablesCol(Tail(tables), HeaderCol(tables[1], HeaderRows, col))

parse_tax_statement_tables(tables, doc_type, filename) ==
    ProcessTables(tables,
                  [filename |-> filename, type |-> doc_type,
                   restanzen_gemeinde |-> None,
                   restanzenvortrag_gemeinde |-> None,
                   is_negative |-> FALSE,
                   raw_restanzen |-> None],
                  DefaultGemeindeCol, doc_type)

\* A text line is the phrases its lowercased text contains and the tokens
\* re.findall(r"[\d',.]+", line) returns, each with the sign notation
\* written around it in the line.
Line(kw, toks) == [kw |-> kw, toks |-> toks]

\* the string the regular expression matched: digits and separators only
Bare(t) == [t EXCEPT !.sign = "none", !.pct = FALSE, !.chf = "none"]

\* line.find(raw_value_str): the first token of the line that is written
\* as the same string (an occurrence inside a longer token is not modelled)
FirstOccurrence(toks, n) ==
    CHOOSE j \in 1..n :
        /\ Bare(toks[j]) = Bare(toks[n])
        /\ \A i \in 1..(j - 1) : Bare(toks[i]) # Bare(toks[n])

\* '-' in line[max(0, value_pos-5):value_pos]: a minus directly before the
\* token, or the trailing minus of the token before it
MinusInPrefix(toks, j) ==
    \/ toks[j].sign = "lead"
    \/ j > 1 /\ toks[j - 1].sign = "trail"

\* values[4], 0-based
TargetTokenIndex == 5

\* the line qualifies for the text fallback and yields a value
FallbackLineYields(line) ==
    /\ "total restanzen" \in line.kw
    /\ "vortrag" \notin line.kw
    /\ Len(line.toks) >= TargetTokenIndex
    /\ IsSome(extract_monetary_value(Bare(line.toks[TargetTokenIndex])))

RECURSIVE TextFallback(_, _)
\* the loop over the text lines; it stops at the first line that yields
TextFallback(lines, data) ==
    IF lines = <<>> THEN data
    ELSE IF FallbackLineYields(lines[1])
    THEN LET toks == lines[1].toks
             target_value ==
                 Val(extract_monetary_value(Bare(toks[TargetTokenIndex])))
             is_negative ==
                 MinusInPrefix(toks, FirstOccurrence(toks, TargetTokenIndex))
         IN  [data EXCEPT
                !.raw_restanzen = Some(IF is_negative THEN -target_value
                                       ELSE target_value),
                !.restanzen_gemeinde = Some(Abs(target_value)),
                !.is_negative = is_negative]
    ELSE TextFallback(Tail(lines), data)

\* a filename is an identity and the lowercase markers it contains
Filename(id, kw) == [id |-> id, kw |-> kw]

\* the filename hint without the test for the receivables token
FilenameHint_ignoring_1012(data, filename) ==
    IF /\ IsSome(data.restanzen_gemeinde) /\ ~data.is_negative
       /\ ("2002" \in filename.kw \/ "minusbetrag" \in filename.kw)
    THEN [data EXCEPT !.is_negative = TRUE]
    ELSE data

\* Filename hint for negative detection
FilenameHint(data, filename) ==
    IF /\ IsSome(data.restanzen_gemeinde) /\ ~data.is_negative
       /\ ("2002" \in filename.kw \/ "minusbetrag" \in filename.kw)
       /\ "1012" \notin filename.kw
    THEN [data EXCEPT !.is_negative = TRUE]
    ELSE data

extract_tax_statement_data_v2(text, tables, filename, doc_type) ==
    LET d0 == parse_tax_statement_tables(tables, doc_type, filename)
        d1 == IF IsNone(d0.restanzen_gemeinde) THEN TextFallback(text, d0)
              ELSE d0
    IN  FilenameHint(d1, filename)

-----------------------------------------------------------------------------
(* Document classifier *)

\* A document is its filename, its page text (lines) and its table grid.
Doc(filename, text, tables) ==
    [filename |-> filename, text |-> text, tables |-> tables]

\* the phrases the whole lowercased text contains
TextKw(text) == UNION { text[i].kw : i \in DOMAIN text }

\* an account number written as a bare token NNNN.NN
IsAccountToken(t, mag) ==
    t.kind = "num" /\ t.mag = mag /\ t.dec = 2 /\ t.decsep = "dot"
    /\ ~HasThousandsSep(t)

\* 1012.00 / 2002.00 / 2006.10 in 1/1000 units, as the tokens carry them
AccountMag(account) ==
    IF account = "1012.00" THEN 1012000
    ELSE IF account = "2002.00" THEN 2002000
    ELSE 2006100

\* "1012.00" in line
LineHasAccount(line, account) ==
    \E n \in DOMAIN line.toks :
        IsAccountToken(line.toks[n], AccountMag(account))

TextHasAccount(text, account) ==
    \E i \in DOMAIN text : LineHasAccount(text[i], account)

\* re.search(r'(\d{4})_(\d{4})', filename) and the comparison of its groups
YearRule(filename) ==
    IF "years_differ" \in filename.kw THEN "SR" ELSE "JA"

\* a classifier that answers from what an earlier evaluation left behind
detect_tax_document_type_remembering(text, filename) ==
    IF IsSome(parsed) THEN "unknown"
    ELSE IF "quellensteuer" \in TextKw(text) \/ "qvo" \in filename.kw
    THEN "quellensteuer"
    ELSE "JA"

\* a classifier that looks at the statement filename patterns first
detect_tax_document_type_filename_first(text, filename) ==
    LET t == TextKw(text)
        f == filename.kw
    IN  IF "sr_yyyy_yyyy" \in f THEN "SR"
        ELSE IF "ja_yyyy_yyyy" \in f THEN "JA"
        ELSE IF "quellensteuer" \in t \/ "qvo" \in f THEN "quellensteuer"
        ELSE IF "kontoauszug" \in t THEN "fibu"
        ELSE "unknown"

detect_tax_document_type(text, filename) ==
    LET t == TextKw(text)
        f == filename.kw
    IN  IF "quellensteuer" \in t \/ "qvo" \in f THEN "quellensteuer"
        ELSE IF "fibu" \in f /\ "konto" \in f THEN "fibu"
        ELSE IF "digits-fibu-prefix" \in f THEN "fibu"
        ELSE IF "kontoauszug" \in t THEN "fibu"
        ELSE IF /\ ("konti" \in f \/ "restanzen" \in f)
                /\ (TextHasAccount(text, "1012.00")
                      \/ TextHasAccount(text, "2002.00"))
        THEN "fibu_combined"
        ELSE IF "fibukonto" \in t \/ "fibukontoblatt" \in t
        THEN "fibu_combined"
        ELSE IF "forderungen allgemeine gemeindesteuern" \in t
        THEN "fibu_combined"
        ELSE IF "verpflichtungen aus allgemeinen gemeindesteuern" \in t
        THEN "fibu_combined"
        ELSE IF "nachsteuer" \in f /\ "fibu" \notin f THEN "NAST"
        ELSE IF "sr_yyyy_yyyy" \in f THEN "SR"
        ELSE IF "ja_yyyy_yyyy" \in f THEN "JA"
        ELSE IF "abrechnung ueber den ertrag von nachsteuern" \in t
        THEN "NAST"
        ELSE IF "nachsteuern" \in t /\ "total restanzen nachsteuern" \in t
        THEN "NAST"
        ELSE IF "jahresabschluss" \in t /\ "fibu" \notin f THEN "JA"
        ELSE IF "steuerrestanz" \in t THEN "SR"
        ELSE IF "erfolgsrechnung" \in t /\ "9100" \in t
        THEN "erfolgsrechnung"
        ELSE IF /\ "bilanz" \in t /\ "fibu" \notin f
                /\ ("bestand per" \in t \/ "31.12." \in t)
        THEN "bilanz"
        ELSE IF "gemowing" \in t \/ "steuerabschluss" \in t
        THEN YearRule(filename)
        ELSE IF "gemeindesteuern" \in t /\ "total restanzen" \in t
        THEN YearRule(filename)
        ELSE "unknown"

-----------------------------------------------------------------------------
(* Ledger (FiBu) statement parsing *)

\* values above 100 CHF are taken for balances
BalanceFloor == 100000

\* lines[:15]
AccountScanLines == 15

FibuAccounts == <<"1012.00", "2002.00", "2006.10">>

\* the account tokens of a line, in the order written
RECURSIVE FirstAccountOfToks(_)
FirstAccountOfToks(toks) ==
    IF toks = <<>> THEN None
    ELSE LET hit == { a \in {1, 2, 3} :
                        IsAccountToken(toks[1], AccountMag(FibuAccounts[a])) }
         IN  IF hit # {} THEN Some(FibuAccounts[CHOOSE a \in hit : TRUE])
             ELSE FirstAccountOfToks(Tail(toks))

\* the account token a filename holds (at most one in a filename)
AccountOfFilename(filename) ==
    IF "1012.00" \in filename.kw THEN Some("1012.00")
    ELSE IF "2002.00" \in filename.kw THEN Some("2002.00")
    ELSE IF "2006.10" \in filename.kw THEN Some("2006.10")
    ELSE None

RECURSIVE AccountOfLines(_, _)
AccountOfLines(lines, n) ==
    IF lines = <<>> \/ n = 0 THEN None
    ELSE LET a == FirstAccountOfToks(lines[1].toks)
         IN  IF IsSome(a) THEN a ELSE AccountOfLines(Tail(lines), n - 1)

\* Detect account number: the filename first, then the first 15 lines
DetectAccount(filename, lines) ==
    IF IsSome(AccountOfFilename(filename)) THEN AccountOfFilename(filename)
    ELSE AccountOfLines(lines, AccountScanLines)

RECURSIVE LastCellAbove(_, _)
\* for cell in row: ... data["saldo"] = value: the last qualifying cell
LastCellAbove(cells, saldo) ==
    IF cells = <<>> THEN saldo
    ELSE LET v == IF CellTruthy(cells[1])
                  THEN extract_monetary_value(cells[1].tok) ELSE None
         IN  LastCellAbove(Tail(cells),
                           IF IsSome(v) /\ Val(v) > BalanceFloor THEN v
                           ELSE saldo)

RECURSIVE TableSaldo(_, _, _)
\* for row in reversed(table): rows[n] downwards; the loop over the rows of
\* one table ends once a total row was met with saldo set
TableSaldo(rows, n, saldo) ==
    IF n = 0 THEN saldo
    ELSE LET row == rows[n]
         IN  IF row.cells = <<>> THEN TableSaldo(rows, n - 1, saldo)
             ELSE IF "total" \in row.kw \/ "anzahl buchungen" \in row.kw
             THEN LET s1 == LastCellAbove(row.cells, saldo)
                  IN  IF IsSome(s1) THEN s1
                      ELSE TableSaldo(rows, n - 1, s1)
             ELSE TableSaldo(rows, n - 1, saldo)

RECURSIVE Strategy1(_, _)
\* Strategy 1: for table in tables
Strategy1(tables, saldo) ==
    IF tables = <<>> THEN saldo
    ELSE Strategy1(Tail(tables),
                   TableSaldo(tables[1], Len(tables[1]), saldo))

RECURSIVE LastTokAbove(_, _)
\* the values above 100 of one line, the last one kept
LastTokAbove(toks, saldo) ==
    IF toks = <<>> THEN saldo
    ELSE LET v == extract_monetary_value(Bare(toks[1]))
         IN  LastTokAbove(Tail(toks),
                          IF IsSome(v) /\ Val(v) > BalanceFloor THEN v
                          ELSE saldo)

\* a line needs this many numeric tokens to count in strategy 2
MinLineValues == 3

RECURSIVE Strategy2(_, _)
\* Strategy 2: saldo_values[-1] over all lines with at least 3 tokens
Strategy2(lines, saldo) ==
    IF lines = <<>> THEN saldo
    ELSE LET l == lines[1]
         IN  IF "saldo" \in l.kw /\ "buchungstext" \in l.kw
             THEN Strategy2(Tail(lines), saldo)
             ELSE IF Len(l.toks) >= MinLineValues
             THEN Strategy2(Tail(lines), LastTokAbove(l.toks, saldo))
             ELSE Strategy2(Tail(lines), saldo)

RECURSIVE FirstFromRight(_, _)
\* for v in reversed(values): the first value above 100
FirstFromRight(toks, n) ==
    IF n = 0 THEN None
    ELSE LET v == extract_monetary_value(Bare(toks[n]))
         IN  IF IsSome(v) /\ Val(v) > BalanceFloor THEN v
             ELSE FirstFromRight(toks, n - 1)

RECURSIVE Strategy3(_)
\* Strategy 3: the first "total:" / "saldo buchungsjahr" line that yields
Strategy3(lines) ==
    IF lines = <<>> THEN None
    ELSE LET l == lines[1]
             v == IF "total:" \in l.kw \/ "saldo buchungsjahr" \in l.kw
                  THEN FirstFromRight(l.toks, Len(l.toks)) ELSE None
         IN  IF IsSome(v) THEN v ELSE Strategy3(Tail(lines))

\* the three strategies without the `if data["saldo"] is None` tests: a
\* later strategy that yields replaces the value of an earlier one
extract_fibu_statement_data_last_wins(text, tables, filename) ==
    LET s1 == Strategy1(tables, None)
        s2 == Strategy2(text, s1)
        s3 == IF IsSome(Strategy3(text)) THEN Strategy3(text) ELSE s2
    IN  [filename |-> filename, type |-> "fibu",
         account |-> DetectAccount(filename, text), saldo |-> s3]

extract_fibu_statement_data(text, tables, filename) ==
    LET s1 == Strategy1(tables, None)
        s2 == IF IsNone(s1) THEN Strategy2(text, None) ELSE s1
        s3 == IF IsNone(s2) THEN Strategy3(text) ELSE s2
    IN  [filename |-> filename, type |-> "fibu",
         account |-> DetectAccount(filename, text), saldo |-> s3]

-----------------------------------------------------------------------------
(* Combined FiBu document parsing *)

\* re.findall(r'-?[\d\']+(?:\.\d{2})?', line): the tokens of an Endsaldo
\* line.  A leading minus belongs to the match; a third decimal is a match
\* of its own.  Tokens written with commas are not among the ledger lines
\* of this model and yield nothing here.
EndsaldoPieces(t) ==
    IF t.kind # "num" THEN <<>>
    ELSE IF t.thou = "comma" \/ (t.decsep = "comma" /\ t.dec > 0) THEN <<>>
    ELSE LET b == [t EXCEPT !.sign = IF t.sign = "lead" THEN "lead"
                                     ELSE "none",
                            !.pct = FALSE, !.chf = "none"]
         IN  IF t.dec = 3
             THEN << [b EXCEPT !.mag = t.mag - (t.mag % 10), !.dec = 2],
                     IntTok(t.mag % 10) >>
             ELSE << b >>

RECURSIVE EndsaldoValues(_)
EndsaldoValues(toks) ==
    IF toks = <<>> THEN <<>>
    ELSE EndsaldoPieces(toks[1]) \o EndsaldoValues(Tail(toks))

RECURSIVE LastNormalized(_, _)
\* for v in reversed(values): the first that normalizes, as abs(value)
LastNormalized(values, n) ==
    IF n = 0 THEN None
    ELSE LET v == extract_monetary_value(values[n])
         IN  IF IsSome(v) THEN Some(Abs(Val(v)))
             ELSE LastNormalized(values, n - 1)

\* account_data[account] = {"startsaldo": None, "endsaldo": None}: a dict
\* keeps the position of a key that is assigned again
ResetAccount(account_data, account) ==
    IF \E n \in DOMAIN account_data : account_data[n].account = account
    THEN [n \in DOMAIN account_data |->
            IF account_data[n].account = account
            THEN [account |-> account, endsaldo |-> None]
            ELSE account_data[n]]
    ELSE Append(account_data, [account |-> account, endsaldo |-> None])

SetEndsaldo(account_data, account, value) ==
    [n \in DOMAIN account_data |->
        IF account_data[n].account = account
        THEN [account |-> account, endsaldo |-> value]
        ELSE account_data[n]]

\* the section header test of one account
SectionHeader(lines, i, account, word) ==
    /\ LineHasAccount(lines[i], account)
    /\ \/ word \in lines[i].kw
       \/ (i + 1 <= Len(lines) /\ "startsaldo" \in lines[i + 1].kw)

\* the body of the loop over the text lines for line i;
\* st = [current_account, account_data]
CombinedLineStep(lines, i, st) ==
    LET s1 == IF SectionHeader(lines, i, "1012.00", "forderungen")
              THEN [current_account |-> Some("1012.00"),
                    account_data |-> ResetAccount(st.account_data, "1012.00")]
              ELSE st
        s2 == IF SectionHeader(lines, i, "2002.00", "verpflichtungen")
              THEN [current_account |-> Some("2002.00"),
                    account_data |-> ResetAccount(s1.account_data, "2002.00")]
              ELSE s1
    IN  IF IsSome(s2.current_account) /\ "endsaldo" \in lines[i].kw
        THEN LET values == EndsaldoValues(lines[i].toks)
                 last == LastNormalized(values, Len(values))
                 acc == Val(s2.current_account)
             IN  [current_account |-> None,
                  account_data |->
                     IF values # <<>>
                     THEN SetEndsaldo(s2.account_data, acc,
                                      IF IsSome(last) THEN last ELSE Some(0))
                     ELSE s2.account_data]
        ELSE s2

RECURSIVE CombinedTextScan(_, _, _)
CombinedTextScan(lines, i, st) ==
    IF i > Len(lines) THEN st
    ELSE CombinedTextScan(lines, i + 1, CombinedLineStep(lines, i, st))

RECURSIVE CombinedResults(_, _)
\* Build results from account data
CombinedResults(account_data, filename) ==
    IF account_data = <<>> THEN <<>>
    ELSE LET rest == CombinedResults(Tail(account_data), filename)
             a == account_data[1]
         IN  IF IsSome(a.endsaldo)
             THEN <<[filename |-> filename, type |-> "fibu",
                     account |-> Some(a.account), saldo |-> a.endsaldo]>>
                  \o rest
             ELSE rest

RECURSIVE LastCellValue(_, _)
\* for cell in reversed(row): the first cell that normalizes
LastCellValue(cells, n) ==
    IF n = 0 THEN None
    ELSE LET v == IF CellTruthy(cells[n])
                  THEN extract_monetary_value(cells[n].tok) ELSE None
         IN  IF IsSome(v) THEN Some(Abs(Val(v)))
             ELSE LastCellValue(cells, n - 1)

\* the body of the loop over the rows of one table;
\* st = [current_account, results]
CombinedRowStep(row, st, filename) ==
    IF row.cells = <<>> THEN st
    ELSE
    LET cur == IF "1012.00" \in row.kw /\ "forderungen" \in row.kw
               THEN Some("1012.00")
               ELSE IF "2002.00" \in row.kw /\ "verpflichtungen" \in row.kw
               THEN Some("2002.00")
               ELSE st.current_account
    IN  IF IsSome(cur) /\ "endsaldo" \in row.kw
        THEN LET v == LastCellValue(row.cells, Len(row.cells))
             IN  [current_account |-> None,
                  results |-> Append(st.results,
                      [filename |-> filename, type |-> "fibu",
                       account |-> cur,
                       saldo |-> IF IsSome(v) THEN v ELSE Some(0)])]
        ELSE [current_account |-> cur, results |-> st.results]

RECURSIVE CombinedRows(_, _, _)
CombinedRows(rows, st, filename) ==
    IF rows = <<>> THEN st
    ELSE CombinedRows(Tail(rows), CombinedRowStep(rows[1], st, filename),
                      filename)

RECURSIVE CombinedTables(_, _, _)
\* for table in tables: current_account = None
CombinedTables(tables, results, filename) ==
    IF tables = <<>> THEN results
    ELSE CombinedTables(Tail(tables),
             CombinedRows(tables[1],
                          [current_account |-> None, results |-> results],
                          filename).results,
             filename)

\* the extractor with the table pass run in every case
extract_combined_fibu_data_tables_too(text, tables, filename) ==
    LET scan == CombinedTextScan(text, 1,
                    [current_account |-> None, account_data |-> <<>>])
        results == CombinedResults(scan.account_data, filename)
    IN  CombinedTables(tables, results, filename)

extract_combined_fibu_data(text, tables, filename) ==
    LET scan == CombinedTextScan(text, 1,
                    [current_account |-> None, account_data |-> <<>>])
        results == CombinedResults(scan.account_data, filename)
    IN  IF results = <<>> THEN CombinedTables(tables, <<>>, filename)
        ELSE results

-----------------------------------------------------------------------------
(* Annual report parsing *)

\* the 9100 totals, which nothing downstream reads, are left out
extract_erfolgsrechnung_data(text, tables, filename) ==
    [filename |-> filename, type |-> "erfolgsrechnung"]

\* re.search(r'\b1012\.\d{2}\b', line)
LineHasAccountFamily(line, family) ==
    \E n \in DOMAIN line.toks :
        LET t == line.toks[n]
        IN  /\ t.kind = "num" /\ t.dec = 2 /\ t.decsep = "dot"
            /\ ~HasThousandsSep(t)
            /\ t.mag \div 1000 = family

\* 1012 / 2002, the integer part of the account numbers
Family1012 == 1012
Family2002 == 2002

RECURSIVE BilanzValue(_, _)
\* the first line of the account family with a value above 100
BilanzValue(lines, family) ==
    IF lines = <<>> THEN None
    ELSE LET v == IF LineHasAccountFamily(lines[1], family)
                  THEN FirstFromRight(lines[1].toks, Len(lines[1].toks))
                  ELSE None
         IN  IF IsSome(v) THEN v ELSE BilanzValue(Tail(lines), family)

extract_bilanz_data(text, tables, filename) ==
    [filename |-> filename, type |-> "bilanz",
     account_1012 |-> BilanzValue(text, Family1012),
     account_2002 |-> BilanzValue(text, Family2002)]

-----------------------------------------------------------------------------
(* Main parsing function *)

\* parse_pdf with every unrecognised document read as an annual statement
parse_pdf_unknown_as_ja(doc) ==
    LET doc_type == detect_tax_document_type(doc.text, doc.filename)
    IN  IF doc_type \in {"JA", "SR", "NAST"}
        THEN extract_tax_statement_data_v2(doc.text, doc.tables,
                                           doc.filename, doc_type)
        ELSE IF doc_type = "fibu"
        THEN extract_fibu_statement_data(doc.text, doc.tables, doc.filename)
        ELSE extract_tax_statement_data_v2(doc.text, doc.tables,
                                           doc.filename, "JA")

parse_pdf(doc) ==
    LET doc_type == detect_tax_document_type(doc.text, doc.filename)
    IN  IF doc_type \in {"JA", "SR", "NAST"}
        THEN extract_tax_statement_data_v2(doc.text, doc.tables,
                                           doc.filename, doc_type)
        ELSE IF doc_type = "fibu"
        THEN extract_fibu_statement_data(doc.text, doc.tables, doc.filename)
        ELSE IF doc_type = "fibu_combined"
        THEN [type |-> "fibu_combined",
              documents |-> extract_combined_fibu_data(doc.text, doc.tables,
                                                       doc.filename)]
        ELSE IF doc_type = "erfolgsrechnung"
        THEN extract_erfolgsrechnung_data(doc.text, doc.tables, doc.filename)
        ELSE IF doc_type = "bilanz"
        THEN extract_bilanz_data(doc.text, doc.tables, doc.filename)
        ELSE IF /\ "gemeindesteuern" \in TextKw(doc.text)
                /\ "total restanzen" \in TextKw(doc.text)
        THEN extract_tax_statement_data_v2(doc.text, doc.tables,
                                           doc.filename, "JA")
        ELSE [filename |-> doc.filename, type |-> "unknown"]

-----------------------------------------------------------------------------
(* Facts the extractors can hand to the reconciliation engine *)

\* a tax fact as the reconciliation engine receives it; the year, which no
\* decision reads, is left out
TaxDoc(filename, type, amount, negative) ==
    [filename |-> filename, type |-> type,
     restanzen_gemeinde |-> amount,
     restanzenvortrag_gemeinde |-> None,
     is_negative |-> negative,
     raw_restanzen |-> IF IsNone(amount) THEN None
                       ELSE IF negative THEN Some(-Val(amount))
                       ELSE amount]

FibuDoc(filename, account, saldo) ==
    [filename |-> filename, type |-> "fibu", account |-> account,
     saldo |-> saldo]

BilanzDoc(filename, a1012, a2002) ==
    [filename |-> filename, type |-> "bilanz", account_1012 |-> a1012,
     account_2002 |-> a2002]

\* (amount, is_negative) of a tax fact; an absent amount is never negative
TaxFactInputs ==
    { <<None, FALSE>>, <<Some(0), FALSE>>, <<Some(0), TRUE>>,
      <<Some(250000), FALSE>>, <<Some(250000), TRUE>>,
      <<Some(1000000), FALSE>>, <<Some(1000000), TRUE>> }

\* (account, saldo) of a ledger fact
LedgerFactInputs ==
    { <<Some("1012.00"), Some(1000000)>>, <<Some("1012.00"), Some(1000004)>>,
      <<Some("1012.00"), Some(1000005)>>, <<Some("1012.00"), Some(1000009)>>,
      <<Some("1012.00"), None>>,
      <<Some("2002.00"), Some(0)>>, <<Some("2002.00"), Some(250000)>>,
      <<Some("2006.10"), Some(500000)>>, <<None, Some(500000)>> }

\* (account_1012, account_2002) of a balance-sheet fact
BilanzFactInputs ==
    { <<None, None>>, <<Some(1000000), None>>, <<None, Some(250000)>>,
      <<Some(1000009), Some(300000)>> }

NumFacts == Len(tax_docs) + Len(fibu_docs) + Len(bilanz_docs)

-----------------------------------------------------------------------------
(* Specification SpecAudit: perform_audit_with_breakdown on bounded inputs *)

InitAudit ==
    /\ tax_docs = <<>>
    /\ fibu_docs = <<>>
    /\ er_docs = <<>>
    /\ bilanz_docs = <<>>
    /\ audit_results = <<>>
    /\ pc = "collect"
    /\ doc_tables = <<>>
    /\ doc_lines = <<>>
    /\ parsed = None
    /\ files = <<>>
    /\ response = None

AddTaxFact ==
    /\ pc = "collect"
    /\ NumFacts < MaxFacts
    /\ \E f \in TaxFactInputs :
         tax_docs' = Append(tax_docs,
                            TaxDoc(Len(tax_docs) + 1, "JA", f[1], f[2]))
    /\ UNCHANGED <<fibu_docs, er_docs, bilanz_docs, audit_results, pc>>
    /\ UNCHANGED docVars
    /\ UNCHANGED batchVars

AddLedgerFact ==
    /\ pc = "collect"
    /\ NumFacts < MaxFacts
    /\ \E f \in LedgerFactInputs :
         fibu_docs' = Append(fibu_docs,
                             FibuDoc(Len(fibu_docs) + 1, f[1], f[2]))
    /\ UNCHANGED <<tax_docs, er_docs, bilanz_docs, audit_results, pc>>
    /\ UNCHANGED docVars
    /\ UNCHANGED batchVars

AddBilanzFact ==
    /\ pc = "collect"
    /\ NumFacts < MaxFacts
    /\ \E f \in BilanzFactInputs :
         bilanz_docs' = Append(bilanz_docs,
                               BilanzDoc(Len(bilanz_docs) + 1, f[1], f[2]))
    /\ UNCHANGED <<tax_docs, fibu_docs, er_docs, audit_results, pc>>
    /\ UNCHANGED docVars
    /\ UNCHANGED batchVars

RunAudit ==
    /\ pc = "collect"
    /\ \E up \in [RoundSites -> BOOLEAN] :
         audit_results' = perform_audit_with_breakdown(
                              tax_docs, fibu_docs, er_docs, bilanz_docs, up)
    /\ pc' = "audited"
    /\ UNCHANGED <<tax_docs, fibu_docs, er_docs, bilanz_docs>>
    /\ UNCHANGED docVars
    /\ UNCHANGED batchVars

NextAudit == AddTaxFact \/ AddLedgerFact \/ AddBilanzFact \/ RunAudit

SpecAudit == InitAudit /\ [][NextAudit]_vars

-----------------------------------------------------------------------------
(* Claims about the reconciliation engine, checked under SpecAudit *)

RECURSIVE SumOver(_, _)
\* the sum of f[i] over the indices i in S
SumOver(S, f) ==
    IF S = {} THEN 0
    ELSE LET i == CHOOSE j \in S : TRUE
         IN  f[i] + SumOver(S \ {i}, f)

Audited == pc = "audited"
RuleIdx == {1, 2}
RuleAccount(k) == IF k = 1 THEN "1012.00" ELSE "2002.00"
RuleNegative(k) == k = 2

\* indices of the tax facts in the bucket of rule k
Bucket(k) ==
    { i \in 1..Len(tax_docs) :
        /\ IsSome(tax_docs[i].restanzen_gemeinde)
        /\ Val(tax_docs[i].restanzen_gemeinde) > 0
        /\ tax_docs[i].is_negative = RuleNegative(k) }

\* indices of the ledger facts of the account of rule k
LedgerOfAccount(k) ==
    { j \in 1..Len(fibu_docs) : fibu_docs[j].account = Some(RuleAccount(k)) }

\* ... that carry a closing balance
LedgerWithBalance(k) ==
    { j \in LedgerOfAccount(k) : IsSome(fibu_docs[j].saldo) }

BilanzWithValue(k) ==
    { j \in 1..Len(bilanz_docs) :
        IsSome(BilanzField(bilanz_docs[j], RuleAccount(k))) }

CountSource(items, src) ==
    Cardinality({ n \in 1..Len(items) : items[n].source = src })

\* C1: for every input, all lists empty included, the audit returns exactly
\* two results, the first for rule R805 and the second for rule R806.
C1_TwoResultsInOrder ==
    Audited =>
        /\ Len(audit_results) = 2
        /\ audit_results[1].rule = "R805"
        /\ audit_results[2].rule = "R806"

C1_Witness ==
    /\ Audited
    /\ tax_docs # <<>> /\ fibu_docs # <<>> /\ bilanz_docs # <<>>
    /\ Len(audit_results) = 2

\* C2: with both totals present the difference is |taxTotal - ledgerTotal|
\* rounded to 2 decimals and the status is MATCH when it is below 0.01 and
\* MISMATCH otherwise; both absent gives NO_DATA and exactly one present
\* gives INCOMPLETE, each with difference 0.
C2_StatusFunction ==
    Audited =>
        \A k \in DOMAIN audit_results :
            LET r == audit_results[k]
                t == r.local_tax_total
                f == r.local_fibu_total
            IN  IF IsSome(t) /\ IsSome(f)
                THEN /\ r.difference % 10 = 0
                     /\ Abs(r.difference - Abs(Val(t) - Val(f))) <= 5
                     /\ r.status = IF r.difference < 10
                                   THEN "MATCH" ELSE "MISMATCH"
                ELSE IF IsNone(t) /\ IsNone(f)
                THEN r.status = "NO_DATA" /\ r.difference = 0
                ELSE r.status = "INCOMPLETE" /\ r.difference = 0

C2_Witness ==
    /\ Audited
    /\ Len(audit_results) = 2
    /\ audit_results[1].status = "MISMATCH"
    /\ audit_results[1].difference = 750000
    /\ audit_results[2].status = "INCOMPLETE"

\* C3: the threshold is strict and applies to the rounded difference:
\* 1000.00 against 1000.004 is MATCH with difference 0.00, 1000.00 against
\* 1000.009 is MISMATCH with difference 0.01; MATCH implies a reported
\* difference of 0.00 and MISMATCH one of at least 0.01.
C3_StrictRoundedThreshold ==
    Audited =>
        \A k \in DOMAIN audit_results :
            LET r == audit_results[k]
            IN  /\ r.status = "MATCH" => r.difference = 0
                /\ r.status = "MISMATCH" => r.difference >= 10
                /\ (r.local_tax_total = Some(1000000)
                      /\ r.local_fibu_total = Some(1000004))
                   => (r.status = "MATCH" /\ r.difference = 0)
                /\ (r.local_tax_total = Some(1000000)
                      /\ r.local_fibu_total = Some(1000009))
                   => (r.status = "MISMATCH" /\ r.difference = 10)

C3_Witness ==
    /\ Audited
    /\ Len(audit_results) = 2
    /\ audit_results[1].local_tax_total = Some(1000000)
    /\ audit_results[1].local_fibu_total = Some(1000009)
    /\ audit_results[1].status = "MISMATCH"

\* C4: a tax fact with an amount present and > 0 is in the tax items of
\* exactly one rule, R805 when isNegative is false and R806 when it is true;
\* a fact with an absent or non-positive amount is in the items of neither
\* rule and in no total.
C4_TaxPartition ==
    Audited =>
        /\ \A i \in 1..Len(tax_docs) :
             LET d == tax_docs[i]
                 n805 == CountSource(audit_results[1].tax_items, d.filename)
                 n806 == CountSource(audit_results[2].tax_items, d.filename)
             IN  IF IsSome(d.restanzen_gemeinde)
                    /\ Val(d.restanzen_gemeinde) > 0
                 THEN /\ n805 = (IF d.is_negative THEN 0 ELSE 1)
                      /\ n806 = (IF d.is_negative THEN 1 ELSE 0)
                 ELSE n805 = 0 /\ n806 = 0
        /\ \A k \in RuleIdx :
             /\ \A n \in DOMAIN audit_results[k].tax_items :
                  LET it == audit_results[k].tax_items[n]
                  IN  /\ it.source \in Bucket(k)
                      /\ it.amount = Val(tax_docs[it.source].restanzen_gemeinde)
             /\ SumAmounts(audit_results[k].tax_items)
                  = SumOver(Bucket(k),
                            [i \in Bucket(k) |->
                                Val(tax_docs[i].restanzen_gemeinde)])

C4_Witness ==
    /\ Audited
    /\ Len(audit_results) = 2
    /\ \E i, j, l \in 1..Len(tax_docs) :
         /\ i \in Bucket(1)
         /\ j \in Bucket(2)
         /\ tax_docs[l].restanzen_gemeinde = Some(0)
    /\ Len(audit_results[1].tax_items) = 1
    /\ Len(audit_results[2].tax_items) = 1

\* the parts of C5 on which the claim and the code agree
C5_Totals(k) ==
    LET r == audit_results[k]
        L == LedgerWithBalance(k)
        B == BilanzWithValue(k)
    IN  /\ r.local_tax_total =
             (IF Bucket(k) = {} THEN None
              ELSE Some(SumOver(Bucket(k),
                        [i \in Bucket(k) |->
                            Val(tax_docs[i].restanzen_gemeinde)])))
        /\ L # {} =>
             /\ r.local_fibu_total =
                  Some(SumOver(L, [j \in L |-> Val(fibu_docs[j].saldo)]))
             /\ \A n \in DOMAIN r.fibu_items :
                  r.fibu_items[n].account = RuleAccount(k)
        /\ L = {} =>
             /\ r.local_fibu_total =
                  (IF B = {} THEN None
                   ELSE Some(SumOver(B, [j \in B |->
                        Val(BilanzField(bilanz_docs[j], RuleAccount(k)))])))
             /\ \A n \in DOMAIN r.fibu_items :
                  r.fibu_items[n].account = BilanzLabel(RuleAccount(k))

UsesBilanz(k) ==
    \E n \in DOMAIN audit_results[k].fibu_items :
        audit_results[k].fibu_items[n].account = BilanzLabel(RuleAccount(k))

\* C5 as claimed: ... balance-sheet values are used only when no ledger
\* fact for that account exists.
C5_Original ==
    Audited =>
        \A k \in RuleIdx :
            /\ C5_Totals(k)
            /\ UsesBilanz(k) => LedgerOfAccount(k) = {}

\* C5 (amended): taxTotal is the sum of the rule's bucket (absent when it is
\* empty); ledgerTotal is the sum of the closing balances of the ledger facts
\* of exactly the rule's account; other ledger facts enter no total;
\* balance-sheet values, labelled 1012.xx / 2002.xx, are used only when no
\* ledger fact of that account carries a closing balance, and are never
\* added to ledger balances.
C5_TotalsAndFallback ==
    Audited =>
        \A k \in RuleIdx :
            /\ C5_Totals(k)
            /\ UsesBilanz(k) => LedgerWithBalance(k) = {}

C5_Witness ==
    /\ Audited
    /\ Len(audit_results) = 2
    /\ UsesBilanz(1)
    /\ LedgerOfAccount(1) # {}
    /\ Bucket(1) # {}
    /\ audit_results[1].status = "MATCH"

\* C15: in every result of perform_audit_with_breakdown the hint is
\* present if and only if the status is MISMATCH.
C15_HintIffMismatch ==
    Audited =>
        \A k \in RuleIdx :
            IsSome(audit_results[k].hint)
                <=> audit_results[k].status = "MISMATCH"

\* a MISMATCH by exactly one cent carries its hint, next to a result
\* without one
C15_Witness ==
    /\ Audited
    /\ \E k \in RuleIdx :
         /\ audit_results[k].status = "MISMATCH"
         /\ audit_results[k].difference = Threshold
         /\ IsSome(audit_results[k].hint)
    /\ \E k \in RuleIdx :
         /\ audit_results[k].status # "MISMATCH"
         /\ IsNone(audit_results[k].hint)

-----------------------------------------------------------------------------
(* Specification SpecTax: the tax-statement extractor on bounded documents *)

MaxParts == 3

E == Cell(EmptyTok, FALSE)
T == Cell(TextTok, FALSE)
G == Cell(TextTok, TRUE)
N(n) == Cell(IntTok(n), FALSE)
M(sign, mag) == Cell(Money(sign, mag), FALSE)

\* rows of a tax statement: the row number, a label, and amounts in the
\* columns; column 4 (0-based) is the default target column
RowInputs ==
    { Row({}, <<N(51), T, E, M("none", 999000), M("lead", 250000)>>),
      Row({"total restanzen"},
          <<N(51), T, E, M("none", 999000), M("none", 300000)>>),
      Row({"total restanzen", "vortrag"},
          <<N(45), T, E, M("none", 999000), M("none", 700000)>>),
      Row({"total restanzen"},
          <<N(45), T, E, M("paren", 120000), M("none", 1000000)>>),
      Row({"total restanzen", "total restanzen nachsteuern"},
          <<N(44), T, E, M("none", 999000), M("trail", 80000)>>),
      Row({"restanzenvortrag inkl. zinsen", "vortrag"},
          <<N(38), T, E, M("none", 999000), M("paren", 60000)>>),
      Row({"total restanzen"}, <<T, E, E, E, M("none", 0)>>),
      Row({}, <<T, E, E, G, E>>),
      Row({}, <<E, T, E, E, M("none", 500000)>>),
      Row({}, <<N(51), T, E, E, T>>) }

\* text lines with the numeric tokens found on them
LineInputs ==
    { Line({"total restanzen"},
           <<Money("none", 1000), Money("none", 2000), Money("none", 3000),
             Money("none", 4000), Money("lead", 500000)>>),
      Line({"total restanzen"},
           <<Money("none", 1000), Money("none", 2000), Money("none", 3000),
             Money("none", 4000), Money("paren", 500000)>>),
      Line({"total restanzen"},
           <<PunctTok, Money("none", 2000), Money("none", 3000),
             Money("trail", 4000), Money("none", 650000)>>),
      Line({"total restanzen", "vortrag"},
           <<Money("none", 1000), Money("none", 2000), Money("none", 3000),
             Money("none", 4000), Money("none", 700000)>>),
      Line({"total restanzen"},
           <<Money("none", 1000), Money("lead", 400000)>>) }

FilenameInputs ==
    { Filename(1, {}), Filename(1, {"2002"}), Filename(1, {"2002", "1012"}),
      Filename(1, {"minusbetrag"}) }

TaxTypes == {"JA", "SR", "NAST"}

RECURSIVE NumRows(_)
NumRows(tbls) ==
    IF tbls = <<>> THEN 0 ELSE Len(tbls[1]) + NumRows(Tail(tbls))

NumParts == Len(doc_tables) + NumRows(doc_tables) + Len(doc_lines)

InitTax ==
    /\ tax_docs = <<>>
    /\ fibu_docs = <<>>
    /\ er_docs = <<>>
    /\ bilanz_docs = <<>>
    /\ audit_results = <<>>
    /\ pc = "build"
    /\ doc_tables = <<>>
    /\ doc_lines = <<>>
    /\ parsed = None
    /\ files = <<>>
    /\ response = None

\* a further table of the document
AddTable ==
    /\ pc = "build"
    /\ NumParts < MaxParts
    /\ doc_tables' = Append(doc_tables, <<>>)
    /\ UNCHANGED <<doc_lines, parsed, pc>>
    /\ UNCHANGED auditVars
    /\ UNCHANGED batchVars

\* a further row of the document's last table
AddRow ==
    /\ pc = "build"
    /\ NumParts < MaxParts
    /\ doc_tables # <<>>
    /\ \E r \in RowInputs :
         doc_tables' = [doc_tables EXCEPT ![Len(doc_tables)] = Append(@, r)]
    /\ UNCHANGED <<doc_lines, parsed, pc>>
    /\ UNCHANGED auditVars
    /\ UNCHANGED batchVars

\* a further line of the document's text
AddLine ==
    /\ pc = "build"
    /\ NumParts < MaxParts
    /\ \E l \in LineInputs : doc_lines' = Append(doc_lines, l)
    /\ UNCHANGED <<doc_tables, parsed, pc>>
    /\ UNCHANGED auditVars
    /\ UNCHANGED batchVars

ExtractTax ==
    /\ pc = "build"
    /\ \E fn \in FilenameInputs, ty \in TaxTypes :
         parsed' = Some(extract_tax_statement_data_v2(
                            doc_lines, doc_tables, fn, ty))
    /\ pc' = "parsed"
    /\ UNCHANGED <<doc_tables, doc_lines>>
    /\ UNCHANGED auditVars
    /\ UNCHANGED batchVars

NextTax == AddTable \/ AddRow \/ AddLine \/ ExtractTax

SpecTax == InitTax /\ [][NextTax]_vars

(* Claims about the tax-statement extractor, checked under SpecTax *)

Parsed == pc = "parsed" /\ IsSome(parsed)

\* the fact came from the text fallback: no table row gave an amount
FromText ==
    /\ IsNone(parse_tax_statement_tables(doc_tables, "JA", 0).restanzen_gemeinde)
    /\ IsNone(parse_tax_statement_tables(doc_tables, "SR", 0).restanzen_gemeinde)
    /\ IsNone(parse_tax_statement_tables(doc_tables, "NAST", 0).restanzen_gemeinde)
    /\ \E n \in DOMAIN doc_lines : FallbackLineYields(doc_lines[n])

\* the token the text fallback reads: the fifth of the first yielding line
TextSourceToken ==
    LET n == CHOOSE m \in DOMAIN doc_lines :
                 /\ FallbackLineYields(doc_lines[m])
                 /\ \A i \in 1..(m - 1) : ~FallbackLineYields(doc_lines[i])
    IN  doc_lines[n].toks[TargetTokenIndex]

\* C10: every tax fact of the extractor (table path, text fallback, after
\* the filename heuristic) has an amount that is absent or >= 0, and a
\* negative source value is stored as its absolute value with
\* isNegative = true.
C10_AmountAbsoluteSignInFlag ==
    Parsed =>
        LET d == Val(parsed)
        IN  /\ IsSome(d.restanzen_gemeinde) => Val(d.restanzen_gemeinde) >= 0
            /\ (IsSome(d.raw_restanzen) /\ Val(d.raw_restanzen) < 0) =>
                  /\ d.is_negative
                  /\ d.restanzen_gemeinde = Some(-Val(d.raw_restanzen))
            /\ (FromText /\ TokenIsNegative(TextSourceToken)) =>
                  /\ d.is_negative
                  /\ d.restanzen_gemeinde = Some(TextSourceToken.mag)

\* the positions (table, row) of the document's table rows
RowPositions ==
    UNION { { <<t, r>> : r \in DOMAIN doc_tables[t] } : t \in DOMAIN doc_tables }

Before(p, q) == p[1] < q[1] \/ (p[1] = q[1] /\ p[2] < q[2])

RowAt(p) == doc_tables[p[1]][p[2]]

\* the target column in force while table t is read
ColAt(t) ==
    ProcessTablesCol(SubSeq(doc_tables, 1, t), DefaultGemeindeCol)

\* the value the parser reads from the row at p
ValueAt(p) == extract_value_from_row(RowAt(p), ColAt(p[1]))

Numbered(p, n) ==
    /\ RowAt(p).cells # <<>>
    /\ CellTruthy(RowAt(p).cells[1])
    /\ RowNum(RowAt(p)) = Some(n)

\* a row of a ResidualStatement from which the parser takes the amount
SRAmountRow(p) ==
    /\ RowAt(p).cells # <<>>
    /\ CellTruthy(RowAt(p).cells[1])
    /\ IsSome(ValueAt(p))
    /\ \/ Numbered(p, 51)
       \/ "total restanzen" \in RowAt(p).kw /\ "vortrag" \notin RowAt(p).kw
       \/ Numbered(p, 44) /\ "total restanzen" \notin RowAt(p).kw

\* row 45 of a ResidualStatement: the roll-forward
VortragRow45(p) ==
    /\ Numbered(p, 45)
    /\ "vortrag" \in RowAt(p).kw
    /\ IsSome(ValueAt(p))

\* the row 51 that is the last amount row of the document
DecidingRow51(p) ==
    /\ Numbered(p, 51)
    /\ SRAmountRow(p)
    /\ \A q \in RowPositions : SRAmountRow(q) => ~Before(p, q)

\* the filename marks the statement as a payable
HintApplies(filename) ==
    /\ "2002" \in filename.kw \/ "minusbetrag" \in filename.kw
    /\ "1012" \notin filename.kw

-----------------------------------------------------------------------------
(* Specification SpecCombined: the combined-ledger extractor on bounded   *)
(* documents.  A document is built entry by entry; the extractor is given *)
(* its page text, its table grid, or both, as the two PDF extractions      *)
(* deliver them.                                                           *)

MaxEntries == 4
MaxTables == 2

AccountCell(mag) ==
    Cell(Tok("num", "none", mag, 2, "none", "dot", FALSE, "none"), FALSE)

\* the entries of a combined ledger, each as text line and as table row:
\*  1  "1012.00 Forderungen ..."          2  "Endsaldo ... 100.00"
\*  3  "2002.00 Verpflichtungen ..."      4  "Endsaldo" without a number
EntryInputs ==
    << [line |-> Line({"forderungen"},
                      <<AccountCell(AccountMag("1012.00")).tok>>),
        row  |-> Row({"1012.00", "forderungen"},
                     <<AccountCell(AccountMag("1012.00")), T, E, E, E>>)],
       [line |-> Line({"endsaldo", "saldo"}, <<Money("none", 100000)>>),
        row  |-> Row({"endsaldo", "saldo"},
                     <<T, E, E, E, M("none", 100000)>>)],
       [line |-> Line({"verpflichtungen"},
                      <<AccountCell(AccountMag("2002.00")).tok>>),
        row  |-> Row({"2002.00", "verpflichtungen"},
                     <<AccountCell(AccountMag("2002.00")), T, E, E, E>>)],
       [line |-> Line({"endsaldo", "saldo"}, <<>>),
        row  |-> Row({"endsaldo", "saldo"}, <<T, E, E, E, E>>)] >>

Layers == {"both", "text", "table"}

CombinedFilename == Filename(1, {"konti"})

InitCombined ==
    /\ tax_docs = <<>>
    /\ fibu_docs = <<>>
    /\ er_docs = <<>>
    /\ bilanz_docs = <<>>
    /\ audit_results = <<>>
    /\ pc = "sections"
    /\ doc_tables = <<>>
    /\ doc_lines = <<>>
    /\ parsed = None
    /\ files = <<>>
    /\ response = None

\* a further table of the document
NewLedgerTable ==
    /\ pc = "sections"
    /\ doc_tables # <<>>
    /\ Len(doc_tables) < MaxTables
    /\ doc_tables[Len(doc_tables)] # <<>>
    /\ doc_tables' = Append(doc_tables, <<>>)
    /\ UNCHANGED <<doc_lines, parsed, pc>>
    /\ UNCHANGED auditVars
    /\ UNCHANGED batchVars

\* a further entry of the document, in its text and in its last table
AddEntry ==
    /\ pc = "sections"
    /\ Len(doc_lines) < MaxEntries
    /\ \E e \in DOMAIN EntryInputs :
         /\ doc_lines' = Append(doc_lines, EntryInputs[e].line)
         /\ doc_tables' =
              IF doc_tables = <<>> THEN << <<EntryInputs[e].row>> >>
              ELSE [doc_tables EXCEPT ![Len(doc_tables)] =
                       Append(@, EntryInputs[e].row)]
    /\ UNCHANGED <<parsed, pc>>
    /\ UNCHANGED auditVars
    /\ UNCHANGED batchVars

\* the text and the tables are extracted from the PDF, each of the two
\* extractions delivering its layer or nothing, and the extractor runs
ExtractCombined ==
    /\ pc = "sections"
    /\ \E layer \in Layers :
         /\ doc_lines' = IF layer = "table" THEN <<>> ELSE doc_lines
         /\ doc_tables' = IF layer = "text" THEN <<>> ELSE doc_tables
         /\ parsed' = Some(extract_combined_fibu_data(doc_lines', doc_tables',
                                                      CombinedFilename))
    /\ pc' = "combined"
    /\ UNCHANGED auditVars
    /\ UNCHANGED batchVars

NextCombined == NewLedgerTable \/ AddEntry \/ ExtractCombined

SpecCombined == InitCombined /\ [][NextCombined]_vars

(* Claims about the combined-ledger extractor, checked under SpecCombined *)

LedgerFact(account, saldo) ==
    [filename |-> CombinedFilename, type |-> "fibu",
     account |-> Some(account), saldo |-> Some(saldo)]

RowsOfEntries(es) == [i \in DOMAIN es |-> EntryInputs[es[i]].row]
LinesOfEntries(es) == [i \in DOMAIN es |-> EntryInputs[es[i]].line]

\* the document of the scenario: the receivables section with its closing
\* row 100.00, then the payables section with a closing row without number
TwoSectionEntries == <<1, 2, 3, 4>>

\* C12: the two-section document yields exactly two ledger facts,
\* 1012.00 with closing balance 100.00 and 2002.00 with closing balance 0.00.
C12_TwoSectionsTwoFacts ==
    ( /\ pc = "combined"
      /\ doc_tables = <<RowsOfEntries(TwoSectionEntries)>>
      /\ doc_lines \in {<<>>, LinesOfEntries(TwoSectionEntries)} )
    => Val(parsed) = << LedgerFact("1012.00", 100000),
                        LedgerFact("2002.00", 0) >>

-----------------------------------------------------------------------------
(* Specification SpecBatch: one /analyze request over the thread pool *)

MaxDocs == 5

\* ThreadPoolExecutor(max_workers=4)
MaxWorkers == 4

AcctTok(mag) == Tok("num", "none", mag, 2, "none", "dot", FALSE, "none")

\* The documents a batch is drawn from:
\*  1  an annual statement, row 45 = 1'000.00
\*  2  a withholding-tax statement whose text also holds the municipal-tax
\*     phrases, row 45 = (250.00)
BatchDocs ==
    << Doc(Filename(0, {"ja_yyyy_yyyy"}),
           <<Line({"jahresabschluss"}, <<>>)>>,
           << <<Row({"total restanzen"},
                    <<N(45), T, E, E, M("none", 1000000)>>)>> >>),
       Doc(Filename(0, {"qvo"}),
           <<Line({"quellensteuer", "gemeindesteuern", "total restanzen"},
                  <<>>)>>,
           << <<Row({"total restanzen"},
                    <<N(45), T, E, E, M("paren", 250000)>>)>> >>) >>

\* the k-th file of the request holding document d
BatchDoc(d, k) ==
    [BatchDocs[d] EXCEPT !.filename = Filename(k, BatchDocs[d].filename.kw)]

FileEntry(doc, task, outcome) ==
    [doc |-> doc, task |-> task, outcome |-> outcome]

\* worker threads that are running a parse task
Busy == Cardinality({ k \in DOMAIN files : files[k].task = "running" })

Facts == [tax |-> tax_docs, fibu |-> fibu_docs, er |-> er_docs,
          bilanz |-> bilanz_docs]

\* the if / elif chain on parsed["type"] after the await
Route(facts, parsed_doc) ==
    LET doc_type == parsed_doc.type
    IN  IF doc_type = "quellensteuer" THEN facts
        ELSE IF doc_type \in {"JA", "SR", "NAST"}
        THEN [facts EXCEPT !.tax = Append(@, parsed_doc)]
        ELSE IF doc_type = "fibu"
        THEN [facts EXCEPT !.fibu = Append(@, parsed_doc)]
        ELSE IF doc_type = "fibu_combined"
        THEN [facts EXCEPT !.fibu = @ \o parsed_doc.documents]
        ELSE IF doc_type = "erfolgsrechnung"
        THEN [facts EXCEPT !.er = Append(@, parsed_doc)]
        ELSE IF doc_type = "bilanz"
        THEN [facts EXCEPT !.bilanz = Append(@, parsed_doc)]
        ELSE facts

AbandonedResult_appended(facts, doc) == Route(facts, parse_pdf(doc))

\* the result of a task whose wait_for timed out: the cancelled asyncio
\* future drops it, nothing reaches the lists
AbandonedResult(facts, doc) == facts

OnFailure_abort == "done"

\* `continue` in the except clauses: the loop goes on with the next file
OnFailure == "loop"

SetFacts(f) ==
    /\ tax_docs' = f.tax
    /\ fibu_docs' = f.fibu
    /\ er_docs' = f.er
    /\ bilanz_docs' = f.bilanz

InitBatch ==
    /\ tax_docs = <<>>
    /\ fibu_docs = <<>>
    /\ er_docs = <<>>
    /\ bilanz_docs = <<>>
    /\ audit_results = <<>>
    /\ pc = "loop"
    /\ doc_tables = <<>>
    /\ doc_lines = <<>>
    /\ parsed = None
    /\ files = <<>>
    /\ response = None

\* a file whose name does not end in .pdf
SkipNonPdf ==
    /\ pc = "loop"
    /\ Len(files) < MaxDocs
    /\ files' = Append(files, FileEntry(0, "none", "skipped"))
    /\ UNCHANGED <<pc, response, audit_results>>
    /\ UNCHANGED <<tax_docs, fibu_docs, er_docs, bilanz_docs>>
    /\ UNCHANGED docVars

\* file.filename or file.read() raises
ReadFails ==
    /\ pc = "loop"
    /\ Len(files) < MaxDocs
    /\ files' = Append(files, FileEntry(0, "none", "error"))
    /\ pc' = OnFailure
    /\ UNCHANGED <<response, audit_results>>
    /\ UNCHANGED <<tax_docs, fibu_docs, er_docs, bilanz_docs>>
    /\ UNCHANGED docVars

\* the file is read, stored and handed to the executor; the task starts on
\* a free worker thread and waits in the executor's queue otherwise
ReadAndSubmit ==
    /\ pc = "loop"
    /\ Len(files) < MaxDocs
    /\ \E d \in DOMAIN BatchDocs :
         files' = Append(files,
                    FileEntry(d, IF Busy < MaxWorkers THEN "running"
                                 ELSE "queued", "waiting"))
    /\ pc' = "await"
    /\ UNCHANGED <<response, audit_results>>
    /\ UNCHANGED <<tax_docs, fibu_docs, er_docs, bilanz_docs>>
    /\ UNCHANGED docVars

\* the task that leaves the executor's queue when a worker becomes free
NextQueued ==
    { k \in DOMAIN files :
        /\ files[k].task = "queued"
        /\ \A j \in DOMAIN files : files[j].task = "queued" => k <= j }

\* a worker thread ends parse_pdf_sync of file k, with a result or with an
\* exception, and takes the next task from the queue
WorkerFinish(k, ok) ==
    /\ files[k].task = "running"
    /\ LET awaited == files[k].outcome = "waiting"
           st == IF ~awaited THEN "finished"
                 ELSE IF ok THEN "done" ELSE "failed"
       IN  files' = [j \in DOMAIN files |->
                       IF j = k THEN [files[j] EXCEPT !.task = st]
                       ELSE IF j \in NextQueued
                       THEN [files[j] EXCEPT !.task = "running"]
                       ELSE files[j]]
    /\ SetFacts(IF files[k].outcome = "waiting" THEN Facts
                ELSE AbandonedResult(Facts, BatchDoc(files[k].doc, k)))
    /\ UNCHANGED <<pc, response, audit_results>>
    /\ UNCHANGED docVars

\* the await returns the parsed document, which is routed into the lists
Deliver ==
    /\ pc = "await"
    /\ files[Len(files)].task = "done"
    /\ SetFacts(Route(Facts,
                      parse_pdf(BatchDoc(files[Len(files)].doc, Len(files)))))
    /\ files' = [files EXCEPT ![Len(files)].outcome = "delivered"]
    /\ pc' = "loop"
    /\ UNCHANGED <<response, audit_results>>
    /\ UNCHANGED docVars

\* the await raises the task's exception: except Exception ... continue
TaskError ==
    /\ pc = "await"
    /\ files[Len(files)].task = "failed"
    /\ files' = [files EXCEPT ![Len(files)].outcome = "error"]
    /\ pc' = OnFailure
    /\ UNCHANGED <<response, audit_results>>
    /\ UNCHANGED <<tax_docs, fibu_docs, er_docs, bilanz_docs>>
    /\ UNCHANGED docVars

\* asyncio.wait_for gives up after 60 s: a task still in the queue is
\* cancelled, a running one keeps its worker thread
Timeout ==
    /\ pc = "await"
    /\ files[Len(files)].task \in {"running", "queued"}
    /\ files' = [files EXCEPT
                   ![Len(files)].outcome = "timeout",
                   ![Len(files)].task =
                       IF @ = "queued" THEN "cancelled" ELSE @]
    /\ pc' = OnFailure
    /\ UNCHANGED <<response, audit_results>>
    /\ UNCHANGED <<tax_docs, fibu_docs, er_docs, bilanz_docs>>
    /\ UNCHANGED docVars

\* no file is left
EndLoop ==
    /\ pc = "loop"
    /\ pc' = "audit"
    /\ UNCHANGED <<files, response, audit_results>>
    /\ UNCHANGED <<tax_docs, fibu_docs, er_docs, bilanz_docs>>
    /\ UNCHANGED docVars

Audit ==
    /\ pc = "audit"
    /\ \E up \in [RoundSites -> BOOLEAN] :
         audit_results' = perform_audit_with_breakdown(
                              tax_docs, fibu_docs, er_docs, bilanz_docs, up)
    /\ pc' = "respond"
    /\ UNCHANGED <<files, response>>
    /\ UNCHANGED <<tax_docs, fibu_docs, er_docs, bilanz_docs>>
    /\ UNCHANGED docVars

Respond ==
    /\ pc = "respond"
    /\ response' = Some([results |-> audit_results,
                         files_processed |-> Len(files),
                         tax_files |-> Len(tax_docs),
                         fibu_files |-> Len(fibu_docs),
                         annual_report_files |->
                             Len(er_docs) + Len(bilanz_docs)])
    /\ pc' = "done"
    /\ UNCHANGED <<files, audit_results>>
    /\ UNCHANGED <<tax_docs, fibu_docs, er_docs, bilanz_docs>>
    /\ UNCHANGED docVars

NextBatch ==
    \/ SkipNonPdf
    \/ ReadFails
    \/ ReadAndSubmit
    \/ \E k \in DOMAIN files, ok \in BOOLEAN : WorkerFinish(k, ok)
    \/ Deliver
    \/ TaskError
    \/ Timeout
    \/ EndLoop
    \/ Audit
    \/ Respond

SpecBatch == InitBatch /\ [][NextBatch]_vars

(* Claims about analyze_files, checked under SpecBatch *)

\* file k of the request as the parse task receives it
DocOfFile(k) == BatchDoc(files[k].doc, k)

SourceIds(docs) == { docs[n].filename.id : n \in DOMAIN docs }

\* file k has a fact in one of the lists of the batch
HasFactOf(k) ==
    k \in SourceIds(tax_docs) \cup SourceIds(fibu_docs)
            \cup SourceIds(er_docs) \cup SourceIds(bilanz_docs)

IsWithholdingTax(k) ==
    /\ files[k].doc # 0
    /\ detect_tax_document_type(DocOfFile(k).text, DocOfFile(k).filename)
         = "quellensteuer"

\* C6: a document the classifier assigns to WithholdingTax is skipped
\* entirely: no extractor runs on it, its category is not revised, and it
\* contributes no tax, ledger or balance-sheet fact to the batch.
C6_WithholdingTaxSkipped ==
    \A k \in DOMAIN files :
        IsWithholdingTax(k) =>
            /\ ~HasFactOf(k)
            /\ parse_pdf(DocOfFile(k)).type \in {"quellensteuer", "unknown"}

\* C7: a document whose parsing exceeds the timeout is dropped without a
\* fact, and every later document of the batch is still parsed, however
\* many earlier parse tasks timed out and still hold a worker thread.
C7_LaterDocumentsStillParsed ==
    \A k \in DOMAIN files :
        /\ files[k].outcome = "timeout" => ~HasFactOf(k)
        /\ files[k].doc # 0 => files[k].task # "cancelled"

\* the files named as the source of an item of the results
ItemSourceIds(results) ==
    UNION { { r.tax_items[n].source.id : n \in DOMAIN r.tax_items }
            \cup { r.fibu_items[n].source.id : n \in DOMAIN r.fibu_items }
            : r \in { results[i] : i \in DOMAIN results } }

AuditStarted == pc \in {"respond", "done"}

\* C8: reconciliation runs exactly once, only after every document has
\* delivered its result, been skipped, failed or timed out; no fact is
\* added to the lists afterwards, not even by a parse task that finishes
\* after its timeout.
C8_AuditOnceAfterBarrier ==
    /\ [](pc \in {"audit", "respond", "done"} =>
            \A k \in DOMAIN files : files[k].outcome # "waiting")
    /\ [](\A k \in DOMAIN files :
            files[k].outcome = "timeout" =>
                ~HasFactOf(k) /\ k \notin ItemSourceIds(audit_results))
    /\ [][ /\ pc \in {"audit", "respond", "done"} =>
               /\ tax_docs' = tax_docs /\ fibu_docs' = fibu_docs
               /\ er_docs' = er_docs /\ bilanz_docs' = bilanz_docs
               /\ pc' \in {"audit", "respond", "done"}
           /\ audit_results' # audit_results =>
               pc = "audit" /\ pc' = "respond"
           /\ AuditStarted => AuditStarted' /\ audit_results' = audit_results
         ]_vars

\* reconciliation has run while an abandoned parse task is still running
C8_Witness ==
    /\ AuditStarted
    /\ Len(audit_results) = 2
    /\ \E k \in DOMAIN files :
         files[k].outcome = "timeout" /\ files[k].task = "running"
    /\ \E k \in DOMAIN files : files[k].outcome = "delivered"

\* the files whose parsed document holds a fact the audit counts
Contributes(k) ==
    /\ files[k].outcome = "delivered"
    /\ LET p == parse_pdf(DocOfFile(k))
       IN  \/ p.type \in TaxTypes /\ TaxFactCounts(p)
           \/ /\ p.type = "fibu"
              /\ p.account \in {Some("1012.00"), Some("2002.00")}
              /\ IsSome(p.saldo)

\* C9: an exception or a timeout on one document never aborts the batch:
\* the request still ends with a response that holds the R805 and R806
\* results, computed from the facts of the documents that were delivered;
\* after the failure the loop goes on with the next file.
C9_FailureNeverAborts ==
    /\ [](pc = "done" =>
            /\ IsSome(response)
            /\ LET res == Val(response).results
               IN  /\ Len(res) = 2
                   /\ res[1].rule = "R805" /\ res[2].rule = "R806"
                   /\ ItemSourceIds(res)
                        = { k \in DOMAIN files : Contributes(k) }
            /\ Val(response).files_processed = Len(files))
    /\ [][ \A k \in DOMAIN files' :
             ( /\ files'[k].outcome \in {"error", "timeout"}
               /\ k \in DOMAIN files => files[k].outcome = "waiting" )
             => pc' = "loop"
         ]_vars

C9_Witness ==
    /\ pc = "done"
    /\ IsSome(response)
    /\ \E i, j, k \in DOMAIN files :
         /\ i < j /\ j < k
         /\ files[i].outcome = "timeout"
         /\ files[j].outcome = "error"
         /\ files[k].outcome = "delivered"
         /\ k \in ItemSourceIds(Val(response).results)

-----------------------------------------------------------------------------
(* Specification SpecScenario: analyze_files on batches whose parse tasks *)
(* all deliver in time, over documents written in several notations       *)

MaxBatch == 3

\* a bare amount such as 1000.00, written without thousands separator
BareCell(sign, mag) ==
    Cell(Tok("num", sign, mag, 2, "none", "dot", FALSE, "none"), FALSE)

JaDoc(cell) ==
    Doc(Filename(0, {"ja_yyyy_yyyy"}),
        <<Line({"jahresabschluss"}, <<>>)>>,
        << <<Row({"total restanzen"}, <<N(45), T, E, E, cell>>)>> >>)

SrDoc(cell) ==
    Doc(Filename(0, {"sr_yyyy_yyyy", "years_differ"}),
        <<Line({"steuerrestanz"}, <<>>)>>,
        << <<Row({"total restanzen", "vortrag"},
                 <<N(45), T, E, E, M("none", 700000)>>),
             Row({"total restanzen"}, <<N(51), T, E, E, cell>>)>> >>)

LedgerDoc(account, cell) ==
    Doc(Filename(0, {"fibu", "konto"}),
        <<Line({"kontoauszug"}, <<AcctTok(AccountMag(account))>>),
          Line({"total"}, <<Bare(cell.tok)>>)>>,
        << <<Row({"total"}, <<T, E, E, E, cell>>)>> >>)

\* a document no rule of the classifier recognises
UnknownDoc ==
    Doc(Filename(0, {}),
        <<Line({}, <<Money("none", 1000000)>>)>>,
        << <<Row({}, <<N(45), T, E, E, M("none", 1000000)>>)>> >>)

\* The documents of BatchDocs, and further:
\*  3  an annual statement, row 45 written 1000.00
\*  4  a ledger extract of 1012.00, total written 1'000.00
\*  5  a ledger extract of 1012.00, total written 1000.00
\*  6  a residual statement, row 51 = -250.00     7  row 51 = (250.00)
\*  8  a residual statement, row 51 = 250.00-
\*  9  an unclassifiable document
ScenarioDocs ==
    BatchDocs \o
    << JaDoc(BareCell("none", 1000000)),
       LedgerDoc("1012.00", M("none", 1000000)),
       LedgerDoc("1012.00", BareCell("none", 1000000)),
       SrDoc(M("lead", 250000)),
       SrDoc(M("paren", 250000)),
       SrDoc(M("trail", 250000)),
       UnknownDoc >>

ScenarioDoc(d, k) ==
    [ScenarioDocs[d] EXCEPT
        !.filename = Filename(k, ScenarioDocs[d].filename.kw)]

\* one pass of the loop body in which the parse task delivers in time
ParseDocument ==
    /\ pc = "loop"
    /\ Len(files) < MaxBatch
    /\ \E d \in DOMAIN ScenarioDocs :
         /\ files' = Append(files, FileEntry(d, "done", "delivered"))
         /\ SetFacts(Route(Facts, parse_pdf(ScenarioDoc(d, Len(files) + 1))))
    /\ UNCHANGED <<pc, response, audit_results>>
    /\ UNCHANGED docVars

NextScenario == ParseDocument \/ EndLoop \/ Audit \/ Respond

SpecScenario == InitBatch /\ [][NextScenario]_vars

(* Claims checked under SpecScenario *)

\* the documents of the batch, as a set of indices, and their number
BatchIs(ds, n) ==
    /\ Len(files) = n
    /\ { files[k].doc : k \in DOMAIN files } = ds

\* C13: one annual statement whose row 45 holds 1000.00 and one ledger
\* extract of 1012.00 with closing balance 1000.00 give R805 = MATCH with
\* difference 0.00 and R806 = NO_DATA, however the two amounts are written;
\* in general equal receivables totals with no payables fact on either
\* side give (MATCH, NO_DATA).
C13_MatchScenario ==
    AuditStarted =>
        /\ (\E j \in {1, 3}, l \in {4, 5} : BatchIs({j, l}, 2)) =>
              /\ audit_results[1].status = "MATCH"
              /\ audit_results[1].difference = 0
              /\ audit_results[2].status = "NO_DATA"
        /\ ( /\ IsSome(audit_results[1].local_tax_total)
             /\ audit_results[1].local_tax_total
                  = audit_results[1].local_fibu_total
             /\ audit_results[2].tax_items = <<>>
             /\ audit_results[2].fibu_items = <<>> ) =>
              /\ audit_results[1].status = "MATCH"
              /\ audit_results[1].difference = 0
              /\ audit_results[2].status = "NO_DATA"

\* the residual statements whose row 51 holds -250.00, (250.00), 250.00-
NegativeResiduals == {6, 7, 8}

\* documents that bring no payables fact: annual statements with a
\* positive amount, ledger extracts of 1012.00, unclassifiable documents
NoPayables == {1, 3, 4, 5, 9}

ResidualOnlyPayable ==
    /\ Cardinality({ k \in DOMAIN files :
                       files[k].doc \in NegativeResiduals }) = 1
    /\ \A k \in DOMAIN files :
         files[k].doc \in NegativeResiduals \cup NoPayables

\* C14: a batch with one residual statement whose row 51 holds a negative
\* value of magnitude 250.00, and no ledger or balance-sheet fact for
\* 2002.00, gives R806 = INCOMPLETE with taxTotal 250.00, ledgerTotal
\* absent and difference 0.
C14_IncompleteScenario ==
    (AuditStarted /\ ResidualOnlyPayable) =>
        /\ audit_results[2].rule = "R806"
        /\ audit_results[2].status = "INCOMPLETE"
        /\ audit_results[2].tax_total = Some(250000)
        /\ audit_results[2].fibu_total = None
        /\ audit_results[2].difference = 0

\* the batch is the residual statement with row 51 = (250.00) alone
C14_Witness ==
    /\ AuditStarted
    /\ BatchIs({7}, 1)
    /\ audit_results[2].status = "INCOMPLETE"
    /\ audit_results[2].tax_total = Some(250000)

-----------------------------------------------------------------------------
(* Specification SpecClassify: the classifier on bounded (text, filename) *)
(* pairs, evaluated more than once on the same document                    *)

MaxEvaluations == 2

\* what a filename can contain, as the classifier reads it; several
\* markers that one name commonly holds together are one choice
FilenameParts ==
    { {"qvo"}, {"fibu"}, {"konto"}, {"fibu", "konto"},
      {"digits-fibu-prefix", "fibu"}, {"konti"}, {"restanzen"},
      {"nachsteuer"}, {"sr_yyyy_yyyy"}, {"sr_yyyy_yyyy", "years_differ"},
      {"ja_yyyy_yyyy"}, {"years_differ"} }

\* what a text can contain; a phrase brings the phrases that are part of it
TextParts ==
    { {"quellensteuer"}, {"kontoauszug"}, {"fibukonto"},
      {"fibukontoblatt", "fibukonto"}, {"account"},
      {"forderungen allgemeine gemeindesteuern", "gemeindesteuern"},
      {"verpflichtungen aus allgemeinen gemeindesteuern", "gemeindesteuern"},
      {"abrechnung ueber den ertrag von nachsteuern", "nachsteuern"},
      {"nachsteuern"},
      {"total restanzen nachsteuern", "total restanzen", "nachsteuern"},
      {"jahresabschluss"}, {"steuerrestanz"},
      {"erfolgsrechnung"}, {"9100"}, {"erfolgsrechnung", "9100"},
      {"bilanz"}, {"bestand per"}, {"31.12."}, {"bilanz", "bestand per"},
      {"bilanz", "31.12."},
      {"gemowing"}, {"steuerabschluss"}, {"gemeindesteuern"},
      {"total restanzen"}, {"gemeindesteuern", "total restanzen"} }

\* nothing, one part, or two parts together
Combined(parts) == {{}} \cup { a \cup b : a, b \in parts }

\* the text with the chosen phrases; "account" stands for a written
\* account number 1012.00
TextOf(kw) ==
    << Line(kw \ {"account"},
            IF "account" \in kw THEN <<AcctTok(AccountMag("1012.00"))>>
            ELSE <<>>) >>

InitClassify ==
    /\ tax_docs = <<>>
    /\ fibu_docs = <<>>
    /\ er_docs = <<>>
    /\ bilanz_docs = <<>>
    /\ audit_results = <<>>
    /\ pc = "classify"
    /\ doc_tables = <<>>
    /\ \E kw \in Combined(TextParts) : doc_lines = TextOf(kw)
    /\ parsed = None
    /\ \E kw \in Combined(FilenameParts) : files = <<Filename(1, kw)>>
    /\ response = None

\* one evaluation of the classifier on the document; parsed collects the
\* categories returned so far
Classify ==
    /\ pc = "classify"
    /\ LET seen == IF IsSome(parsed) THEN Val(parsed) ELSE <<>>
           cat == detect_tax_document_type(doc_lines, files[1])
       IN  /\ parsed' = Some(Append(seen, cat))
           /\ pc' = IF Len(seen) + 1 >= MaxEvaluations THEN "classified"
                    ELSE "classify"
    /\ UNCHANGED <<doc_tables, doc_lines>>
    /\ UNCHANGED auditVars
    /\ UNCHANGED batchVars

NextClassify == Classify

SpecClassify == InitClassify /\ [][NextClassify]_vars

(* Claims about the classifier, checked under SpecClassify *)

Categories ==
    {"quellensteuer", "fibu", "fibu_combined", "NAST", "SR", "JA",
     "erfolgsrechnung", "bilanz", "unknown"}

Classified == pc \in {"classify", "classified"} /\ IsSome(parsed)

RuleMatches(g) ==
    LET t == TextKw(doc_lines)
        f == files[1].kw
    IN  CASE g = 1 -> "quellensteuer" \in t \/ "qvo" \in f
          [] g = 2 -> \/ "fibu" \in f /\ "konto" \in f
                      \/ "digits-fibu-prefix" \in f
                      \/ "kontoauszug" \in t
          [] g = 3 -> \/ /\ "konti" \in f \/ "restanzen" \in f
                         /\ \/ TextHasAccount(doc_lines, "1012.00")
                            \/ TextHasAccount(doc_lines, "2002.00")
                      \/ "fibukonto" \in t
                      \/ "fibukontoblatt" \in t
                      \/ "forderungen allgemeine gemeindesteuern" \in t
                      \/ "verpflichtungen aus allgemeinen gemeindesteuern"
                            \in t
          [] g = 4 -> \/ "nachsteuer" \in f /\ "fibu" \notin f
                      \/ "sr_yyyy_yyyy" \in f
                      \/ "ja_yyyy_yyyy" \in f
                      \/ "abrechnung ueber den ertrag von nachsteuern" \in t
                      \/ "total restanzen nachsteuern" \in t
                      \/ "jahresabschluss" \in t /\ "fibu" \notin f
                      \/ "steuerrestanz" \in t
          [] g = 5 -> \/ "erfolgsrechnung" \in t /\ "9100" \in t
                      \/ /\ "bilanz" \in t /\ "fibu" \notin f
                         /\ "bestand per" \in t \/ "31.12." \in t
          [] g = 6 -> \/ "gemowing" \in t
                      \/ "steuerabschluss" \in t
                      \/ "gemeindesteuern" \in t /\ "total restanzen" \in t
          [] OTHER -> TRUE

RuleCategories(g) ==
    CASE g = 1 -> {"quellensteuer"}
      [] g = 2 -> {"fibu"}
      [] g = 3 -> {"fibu_combined"}
      [] g = 4 -> {"NAST", "SR", "JA"}
      [] g = 5 -> {"erfolgsrechnung", "bilanz"}
      [] g = 6 -> {"JA", "SR"}
      [] OTHER -> {"unknown"}

Rules == 1..7

\* C17: the classifier is a first-match-wins cascade over withholding tax,
\* ledger, combined ledger, tax statements, income-statement and
\* balance-sheet excerpts, generic fallback, unknown: the category is that
\* of the earliest rule whose condition the document satisfies, whatever
\* later rules it satisfies too.
C17_FirstMatchWins ==
    Classified =>
        \A g \in Rules :
            (RuleMatches(g) /\ \A h \in 1..(g - 1) : ~RuleMatches(h))
                => Val(parsed)[1] \in RuleCategories(g)

\* a combined ledger whose text also satisfies the generic fallback
C17_Witness ==
    /\ Classified
    /\ RuleMatches(3) /\ RuleMatches(6)
    /\ ~RuleMatches(1) /\ ~RuleMatches(2)
    /\ Val(parsed)[1] = "fibu_combined"

ScenarioDocOfFile(k) == ScenarioDoc(files[k].doc, k)

IsUnknown(k) ==
    detect_tax_document_type(ScenarioDocOfFile(k).text,
                             ScenarioDocOfFile(k).filename) = "unknown"

\* C18: a document classified Unknown adds no tax, ledger,
\* income-statement or balance-sheet entry to the batch and is passed
\* through without an error.
C18_UnknownContributesNothing ==
    /\ \A k \in DOMAIN files :
         IsUnknown(k) =>
             /\ ~HasFactOf(k)
             /\ parse_pdf(ScenarioDocOfFile(k)).type = "unknown"
             /\ files[k].outcome = "delivered"
    /\ (pc = "done" /\ \A k \in DOMAIN files : IsUnknown(k)) =>
           /\ Val(response).tax_files = 0
           /\ Val(response).fibu_files = 0
           /\ Val(response).annual_report_files = 0
           /\ Val(response).files_processed = Len(files)

\* an unclassifiable document went through between two statements
C18_Witness ==
    /\ pc = "done"
    /\ Len(files) = 3
    /\ files[1].doc = 1 /\ IsUnknown(2) /\ files[3].doc = 6
    /\ Len(tax_docs) = 2
    /\ Val(response).files_processed = 3

-----------------------------------------------------------------------------
(* The normalizer alone: one token is drawn, extract_monetary_value is
   applied to it *)

\* the amounts written, each with the number of decimals it is written with:
\* "5", "45.00", "12.5", "500.00", "1000.00", "1012.00", "1234.50", "1234",
\* "1234567"
WrittenAmounts ==
    { <<5000, 0>>, <<45000, 2>>, <<12500, 1>>, <<500000, 2>>,
      <<1000000, 2>>, <<1012000, 2>>, <<1234500, 2>>, <<1234000, 0>>,
      <<1234567000, 0>> }

\* every way of writing them: sign, thousands separator, decimal separator,
\* percent sign, currency marker.  A thousands separator is written only
\* from 1'000 on, a decimal separator only before decimals.
NormalizerTokens ==
    { Tok("num", sg, a[1], a[2], th, ds, pc_, ch) :
        sg \in {"none", "lead", "trail", "paren"},
        a \in WrittenAmounts,
        th \in {"none", "apos", "comma"},
        ds \in {"dot", "comma"},
        pc_ \in BOOLEAN,
        ch \in {"none", "prefix", "suffix"} }

CanonicalToken(t) ==
    /\ (t.mag < 1000000 => t.thou = "none")
    /\ (t.dec = 0 => t.decsep = "dot")

InitNormalize ==
    /\ tax_docs = <<>>
    /\ fibu_docs = <<>>
    /\ er_docs = <<>>
    /\ bilanz_docs = <<>>
    /\ audit_results = <<>>
    /\ pc = "token"
    /\ doc_tables = <<>>
    /\ \E t \in NormalizerTokens :
         /\ CanonicalToken(t)
         /\ doc_lines = << Line({}, <<t>>) >>
    /\ parsed = None
    /\ files = <<>>
    /\ response = None

\* value = extract_monetary_value(token)
Normalize ==
    /\ pc = "token"
    /\ parsed' = Some(extract_monetary_value(doc_lines[1].toks[1]))
    /\ pc' = "normalized"
    /\ UNCHANGED <<doc_tables, doc_lines>>
    /\ UNCHANGED auditVars
    /\ UNCHANGED batchVars

NextNormalize == Normalize

SpecNormalize == InitNormalize /\ [][NextNormalize]_vars

(* Claims about the normalizer, checked under SpecNormalize *)

Normalized == pc = "normalized"
TheToken == doc_lines[1].toks[1]
TheValue == Val(parsed)

\* the token as a string: its first character is "-", its last character is
\* "-", it is wrapped in parentheses
LeadingMinus(t) == t.sign = "lead" /\ t.chf # "prefix"
TrailingMinus(t) == t.sign = "trail" /\ t.chf # "suffix"
Parenthesised(t) == t.sign = "paren"

\* the token is nothing but four digits, a dot and two digits
BareRowRef(t) ==
    /\ t.sign = "none" /\ t.chf = "none" /\ ~t.pct
    /\ t.dec = 2 /\ t.decsep = "dot" /\ ~HasThousandsSep(t)
    /\ t.mag >= 1000000 /\ t.mag < 10000000

\* an amount in Swiss formatting: apostrophes as thousands separators, a dot
\* or a comma before the decimals, an optional sign or currency marker
WellFormedAmount(t) == t.kind = "num" /\ t.thou # "comma"

PlainTok(mag, dec, thou) ==
    Tok("num", "none", mag, dec, thou, "dot", FALSE, "none")

\* C19: a token with a leading "-", a trailing "-" or parentheses is
\* negative; a token with "%" and a bare DDDD.DD token are not a number; no
\* other well-formed amount is rejected; "1'234.50" gives 1234.50,
\* "(500.00)" gives -500.00, "12.5%" nothing, "45.00" gives 45.00 and
\* "1012.00" nothing.
C19_NormalizerContract ==
    Normalized =>
        LET t == TheToken
            v == TheValue
        IN  /\ (IsSome(v) /\ (LeadingMinus(t) \/ TrailingMinus(t)
                                \/ Parenthesised(t))) => Val(v) < 0
            /\ (t.pct \/ BareRowRef(t)) => IsNone(v)
            /\ (WellFormedAmount(t) /\ ~t.pct /\ ~BareRowRef(t))
                   => IsSome(v)
            /\ t = PlainTok(1234500, 2, "apos") => v = Some(1234500)
            /\ t = [PlainTok(500000, 2, "none") EXCEPT !.sign = "paren"]
                   => v = Some(-500000)
            /\ t = [PlainTok(12500, 1, "none") EXCEPT !.pct = TRUE]
                   => v = None
            /\ t = PlainTok(45000, 2, "none") => v = Some(45000)
            /\ t = PlainTok(1012000, 2, "none") => v = None

-----------------------------------------------------------------------------
(* Specification SpecStatement: the ledger extractor on bounded account   *)
(* statements, built table by table, row by row and line by line          *)

MaxStatementRows == 2
MaxStatementLines == 2
MaxStatementTables == 2

\* the rows of a statement table:
\*  1  "Total | 200.00"      2  "Anzahl Buchungen | 3"      3  "... | 300.00"
\*  4  "Total | 700.00 | 35.00"
StatementRows ==
    << Row({"total"}, <<T, M("none", 200000)>>),
       Row({"anzahl buchungen"}, <<T, Cell(IntTok(3), FALSE)>>),
       Row({}, <<T, M("none", 300000)>>),
       Row({"total"}, <<T, M("none", 700000), M("none", 35000)>>) >>

\* the lines of a statement text:
\*  1  a booking line "12 50.00 400.00"
\*  2  the column header "Buchungstext ... Saldo" with three numbers
\*  3  "Total: 500.00"       4  "Saldo Buchungsjahr 3"
StatementLines ==
    << Line({}, <<IntTok(12), Money("none", 50000), Money("none", 400000)>>),
       Line({"saldo", "buchungstext"},
            <<IntTok(12), Money("none", 50000), Money("none", 600000)>>),
       Line({"total:", "total"}, <<Money("none", 500000)>>),
       Line({"saldo buchungsjahr", "saldo"}, <<IntTok(3)>>) >>

StatementFilename == Filename(1, {"fibu", "konto"})

InitStatement ==
    /\ tax_docs = <<>>
    /\ fibu_docs = <<>>
    /\ er_docs = <<>>
    /\ bilanz_docs = <<>>
    /\ audit_results = <<>>
    /\ pc = "statement"
    /\ doc_tables = << <<>> >>
    /\ doc_lines = <<>>
    /\ parsed = None
    /\ files = <<>>
    /\ response = None

\* a further table of the statement
NewStatementTable ==
    /\ pc = "statement"
    /\ Len(doc_tables) < MaxStatementTables
    /\ doc_tables[Len(doc_tables)] # <<>>
    /\ doc_tables' = Append(doc_tables, <<>>)
    /\ UNCHANGED <<doc_lines, parsed, pc>>
    /\ UNCHANGED auditVars
    /\ UNCHANGED batchVars

\* a further row of the statement's last table
AddStatementRow ==
    /\ pc = "statement"
    /\ NumRows(doc_tables) < MaxStatementRows
    /\ \E r \in DOMAIN StatementRows :
         doc_tables' = [doc_tables EXCEPT ![Len(doc_tables)] =
                           Append(@, StatementRows[r])]
    /\ UNCHANGED <<doc_lines, parsed, pc>>
    /\ UNCHANGED auditVars
    /\ UNCHANGED batchVars

\* a further line of the statement's text
AddStatementLine ==
    /\ pc = "statement"
    /\ Len(doc_lines) < MaxStatementLines
    /\ \E l \in DOMAIN StatementLines :
         doc_lines' = Append(doc_lines, StatementLines[l])
    /\ UNCHANGED <<doc_tables, parsed, pc>>
    /\ UNCHANGED auditVars
    /\ UNCHANGED batchVars

\* data = extract_fibu_statement_data(text, tables, filename)
ExtractStatement ==
    /\ pc = "statement"
    /\ parsed' = Some(extract_fibu_statement_data(doc_lines, doc_tables,
                                                  StatementFilename))
    /\ pc' = "extracted"
    /\ UNCHANGED <<doc_tables, doc_lines>>
    /\ UNCHANGED auditVars
    /\ UNCHANGED batchVars

NextStatement ==
    \/ NewStatementTable
    \/ AddStatementRow
    \/ AddStatementLine
    \/ ExtractStatement

SpecStatement == InitStatement /\ [][NextStatement]_vars

(* Claims about the ledger extractor, checked under SpecStatement *)

Extracted == pc = "extracted"
\* what each strategy yields on the document when run on its own
TableScan == Strategy1(doc_tables, None)
TextScan == Strategy2(doc_lines, None)
TotalLine == Strategy3(doc_lines)

\* C20: the closing balance is what the table scan yields; the text scan
\* decides only if the table scan yielded nothing, the explicit total line
\* only if both yielded nothing; the value returned is that of exactly one
\* strategy.
C20_StrategiesInOrder ==
    Extracted =>
        /\ IsSome(TableScan) => Val(parsed).saldo = TableScan
        /\ (IsNone(TableScan) /\ IsSome(TextScan))
               => Val(parsed).saldo = TextScan
        /\ (IsNone(TableScan) /\ IsNone(TextScan))
               => Val(parsed).saldo = TotalLine

\* all three strategies would yield, each a different value, and the table
\* scan decided
C20_Witness ==
    /\ Extracted
    /\ IsSome(TableScan) /\ IsSome(TextScan) /\ IsSome(TotalLine)
    /\ TableScan # TextScan /\ TextScan # TotalLine /\ TableScan # TotalLine
    /\ Val(parsed).saldo = TableScan

-----------------------------------------------------------------------------
(* Claims about the steps of the combined-ledger text scan, checked under
   SpecCombined on the text of the document *)

RECURSIVE ScanState(_)
\* the scanner after the first k lines of the text
ScanState(k) ==
    IF k = 0 THEN [current_account |-> None, account_data |-> <<>>]
    ELSE CombinedLineStep(doc_lines, k, ScanState(k - 1))

\* the section that is active when the Endsaldo test of line i is made
ActiveSection(i) ==
    IF SectionHeader(doc_lines, i, "2002.00", "verpflichtungen")
    THEN Some("2002.00")
    ELSE IF SectionHeader(doc_lines, i, "1012.00", "forderungen")
    THEN Some("1012.00")
    ELSE ScanState(i - 1).current_account

\* the closing balance the scanner holds for an account
BalanceOf(st, account) ==
    IF \E n \in DOMAIN st.account_data :
           st.account_data[n].account = account
    THEN st.account_data[CHOOSE n \in DOMAIN st.account_data :
                            st.account_data[n].account = account].endsaldo
    ELSE None

EndsaldoLines == { i \in DOMAIN doc_lines : "endsaldo" \in doc_lines[i].kw }

\* C21: an Endsaldo line met while a section is active sets that account's
\* closing balance to the absolute value of the last token that normalizes,
\* or to 0.0 when none does or the line has no numeric token, and leaves no
\* section active; an Endsaldo line met while no section is active changes
\* nothing.
C21_EndsaldoClosesSection ==
    \A i \in EndsaldoLines :
        LET values == EndsaldoValues(doc_lines[i].toks)
            last == LastNormalized(values, Len(values))
        IN  IF IsSome(ActiveSection(i))
            THEN /\ BalanceOf(ScanState(i), Val(ActiveSection(i)))
                       = IF IsSome(last) THEN last ELSE Some(0)
                 /\ IsNone(ScanState(i).current_account)
            ELSE ScanState(i) = ScanState(i - 1)

CombinedAccounts == {"1012.00", "2002.00"}

\* the accounts that held a closing balance at some point of the text scan
TextClosed ==
    { acc \in CombinedAccounts :
        \E k \in 1..Len(doc_lines) : IsSome(BalanceOf(ScanState(k), acc)) }

\* the text scan produced no fact, so the table grid is scanned
FallbackRan ==
    CombinedResults(ScanState(Len(doc_lines)).account_data,
                    CombinedFilename) = <<>>

\* the accounts of which the table scan closes a section
TableClosed ==
    LET rs == CombinedTables(doc_tables, <<>>, CombinedFilename)
    IN  { acc \in CombinedAccounts :
            \E n \in DOMAIN rs : rs[n].account = Some(acc) }

\* the number of facts emitted for an account
EmittedFor(acc) ==
    Cardinality({ n \in DOMAIN Val(parsed) :
                    Val(parsed)[n].account = Some(acc) })

\* C22: the extractor emits exactly one fact for each account that received
\* a closing balance at some point of the scan, also when the account's
\* section header appears again later, and none for any other account.
C22_OneFactPerClosedAccount ==
    pc = "combined" =>
        \A acc \in CombinedAccounts :
            EmittedFor(acc) =
                IF acc \in TextClosed \/ (FallbackRan /\ acc \in TableClosed)
                THEN 1 ELSE 0

-----------------------------------------------------------------------------
(* Specification SpecRows: the loop over the rows of one tax-statement     *)
(* table, one row per step; parsed holds the fact as it stands after the   *)
(* rows processed so far                                                   *)

MaxRowsProcessed == 3

\* the rows the dispatch distinguishes, the amount in the default column:
\*  1  "51 | ... | -250.00"                2  "45 | Total Restanzen | 1'000.00"
\*  3  "45 | Total Restanzen Vortrag | 700.00"          4  "44 | ... | 80.00-"
\*  5  "Total Restanzen Nachsteuern | 500.00"           6  "44 | ... | text"
\*  7  "38 | Restanzenvortrag inkl. Zinsen | (60.00)"   8  "7 | ... | 900.00"
DispatchRows ==
    << Row({}, <<N(51), T, E, E, M("lead", 250000)>>),
       Row({"total restanzen"}, <<N(45), T, E, E, M("none", 1000000)>>),
       Row({"total restanzen", "vortrag"},
           <<N(45), T, E, E, M("none", 700000)>>),
       Row({}, <<N(44), T, E, E, M("trail", 80000)>>),
       Row({"total restanzen", "total restanzen nachsteuern"},
           <<T, E, E, E, M("none", 500000)>>),
       Row({}, <<N(44), T, E, E, T>>),
       Row({"restanzenvortrag inkl. zinsen", "vortrag"},
           <<N(38), T, E, E, M("paren", 60000)>>),
       Row({}, <<N(7), T, E, E, M("none", 900000)>>) >>

RowsFilename == Filename(1, {})

InitRows ==
    /\ tax_docs = <<>>
    /\ fibu_docs = <<>>
    /\ er_docs = <<>>
    /\ bilanz_docs = <<>>
    /\ audit_results = <<>>
    /\ pc = "rows"
    /\ doc_tables = << <<>> >>
    /\ doc_lines = <<>>
    /\ \E ty \in TaxTypes :
         parsed = Some(parse_tax_statement_tables(<<>>, ty, RowsFilename))
    /\ files = <<>>
    /\ response = None

\* one iteration of `for row in table`
ProcessNextRow ==
    /\ pc = "rows"
    /\ Len(doc_tables[1]) < MaxRowsProcessed
    /\ \E r \in DOMAIN DispatchRows :
         /\ doc_tables' = << Append(doc_tables[1], DispatchRows[r]) >>
         /\ parsed' = Some(ProcessRow(DispatchRows[r], Val(parsed),
                                      DefaultGemeindeCol, Val(parsed).type))
    /\ UNCHANGED <<doc_lines, pc>>
    /\ UNCHANGED auditVars
    /\ UNCHANGED batchVars

NextRows == ProcessNextRow

SpecRows == InitRows /\ [][NextRows]_vars

(* Claims about the row dispatch, checked under SpecRows *)

\* the row of the step and its value in the target column
StepRow == doc_tables'[1][Len(doc_tables'[1])]
StepValue == extract_value_from_row(StepRow, DefaultGemeindeCol)
Fact == Val(parsed)

\* C23: a row with row number 44, or of a supplementary-tax statement with
\* the text "total restanzen nachsteuern", whose target cell normalizes to a
\* number, is recorded as the fact: amount = |value|, isNegative = value < 0.
C23_Row44Recorded ==
    [][ ( /\ \/ RowNum(StepRow) = Some(44)
             \/ ( /\ Fact.type = "NAST"
                  /\ "total restanzen nachsteuern" \in StepRow.kw )
          /\ IsSome(StepValue) )
        => /\ Val(parsed').raw_restanzen = StepValue
           /\ Val(parsed').restanzen_gemeinde = Some(Abs(Val(StepValue)))
           /\ Val(parsed').is_negative = (Val(StepValue) < 0) ]_vars

\* the row is handled by the first branch of the dispatch (row 51)
Row51Rule(row, doc_type) ==
    \/ RowNum(row) = Some(51)
    \/ ( /\ doc_type = "SR" /\ "total restanzen" \in row.kw
         /\ "vortrag" \notin row.kw )

\* C24: once the primary amount is set, a later row handled by any rule other
\* than the row-51 rule does not change it, and a row whose text contains
\* "vortrag" never sets or changes the primary amount.
C24_PrimaryAmountKept ==
    [][ /\ ( /\ IsSome(Fact.restanzen_gemeinde)
             /\ ~Row51Rule(StepRow, Fact.type) )
           => Val(parsed').restanzen_gemeinde = Fact.restanzen_gemeinde
        /\ "vortrag" \in StepRow.kw
           => Val(parsed').restanzen_gemeinde = Fact.restanzen_gemeinde
      ]_vars

-----------------------------------------------------------------------------
(* The order between residual and annual statement, checked under
   SpecClassify *)

\* a condition of the supplementary-tax category holds
SupplementaryTaxCondition ==
    LET t == TextKw(doc_lines)
        f == files[1].kw
    IN  \/ "nachsteuer" \in f /\ "fibu" \notin f
        \/ "abrechnung ueber den ertrag von nachsteuern" \in t
        \/ "nachsteuern" \in t /\ "total restanzen nachsteuern" \in t

ResidualCondition ==
    \/ "sr_yyyy_yyyy" \in files[1].kw
    \/ "steuerrestanz" \in TextKw(doc_lines)

\* C25: a document that meets no condition of rules 1-3 and none of the
\* supplementary-tax category, and whose filename matches sr_YYYY_YYYY or
\* whose text contains "steuerrestanz", is a residual statement, also when
\* its text contains "Jahresabschluss".
C25_ResidualBeforeAnnual ==
    ( /\ Classified
      /\ ~RuleMatches(1) /\ ~RuleMatches(2) /\ ~RuleMatches(3)
      /\ ~SupplementaryTaxCondition
      /\ ResidualCondition )
    => Val(parsed)[1] = "SR"

-----------------------------------------------------------------------------
(* The table scan of the ledger extractor, checked under SpecStatement *)

IsTotalRow(row) ==
    row.cells # <<>> /\ ("total" \in row.kw \/ "anzahl buchungen" \in row.kw)

\* the tables with a total row, and the first such row met from the bottom
HasTotalRow(k) == \E n \in DOMAIN doc_tables[k] : IsTotalRow(doc_tables[k][n])
BottomTotalRow(k) ==
    doc_tables[k][CHOOSE n \in DOMAIN doc_tables[k] :
                     /\ IsTotalRow(doc_tables[k][n])
                     /\ \A m \in DOMAIN doc_tables[k] :
                            m > n => ~IsTotalRow(doc_tables[k][m])]

\* the last cell of the row whose normalized value exceeds 100
BalanceOfRow(row) == LastCellAbove(row.cells, None)

\* table k is the first table of the document that gives a value
FirstYieldingTable(k) ==
    /\ HasTotalRow(k)
    /\ IsSome(BalanceOfRow(BottomTotalRow(k)))
    /\ \A j \in 1..(k - 1) :
           IsNone(TableSaldo(doc_tables[j], Len(doc_tables[j]), None))

\* C26: the table scan takes the closing balance from the first total row
\* met from the bottom of a table, from the last cell above 100; the value
\* obtained is not replaced by another row or another table.
C26_TableScanKeepsFirstValue ==
    Extracted =>
        \A k \in DOMAIN doc_tables :
            FirstYieldingTable(k) =>
                TableScan = BalanceOfRow(BottomTotalRow(k))

\* the facts of the text scan, and those the table pass gives on its own
TextFacts ==
    CombinedResults(ScanState(Len(doc_lines)).account_data, CombinedFilename)
TableFacts == CombinedTables(doc_tables, <<>>, CombinedFilename)

\* C27: the table pass runs only when the text scan produced no fact; when
\* the text scan produced a fact the output is exactly the text-scan facts,
\* whatever the tables hold.
C27_TablePassOnlyAsFallback ==
    pc = "combined" =>
        /\ TextFacts # <<>> =>
              /\ Val(parsed) = TextFacts
              /\ Val(parsed) = extract_combined_fibu_data(doc_lines, <<>>,
                                                          CombinedFilename)
        /\ TextFacts = <<>> => Val(parsed) = TableFacts

\* the text scan gave a fact while the tables would have given other facts
C27_Witness ==
    /\ pc = "combined"
    /\ TextFacts # <<>>
    /\ TableFacts # <<>>
    /\ TableFacts # TextFacts
    /\ Val(parsed) = TextFacts

-----------------------------------------------------------------------------
(* The filename heuristic of the tax-statement extractor, checked under
   SpecTax *)

\* the fact as it stands when the heuristic is reached
BeforeHint ==
    LET d0 == parse_tax_statement_tables(doc_tables, Val(parsed).type,
                                         Val(parsed).filename)
    IN  IF IsNone(d0.restanzen_gemeinde) THEN TextFallback(doc_lines, d0)
        ELSE d0

NamesPayables(filename) ==
    /\ "2002" \in filename.kw \/ "minusbetrag" \in filename.kw
    /\ "1012" \notin filename.kw

\* C28: the filename heuristic acts only on a fact with an amount and
\* isNegative false, which it makes negative exactly when the filename
\* contains "2002" or "minusbetrag" and not "1012"; it never changes the
\* amount, never clears isNegative, and does nothing without an amount.
C28_FilenameHeuristic ==
    Parsed =>
        LET d == Val(parsed)
        IN  /\ d.restanzen_gemeinde = BeforeHint.restanzen_gemeinde
            /\ d.raw_restanzen = BeforeHint.raw_restanzen
            /\ d.restanzenvortrag_gemeinde
                  = BeforeHint.restanzenvortrag_gemeinde
            /\ BeforeHint.is_negative => d.is_negative
            /\ IsNone(BeforeHint.restanzen_gemeinde) => d = BeforeHint
            /\ (IsSome(BeforeHint.restanzen_gemeinde)
                  /\ ~BeforeHint.is_negative)
                 => d.is_negative = NamesPayables(d.filename)

\* a positive amount read from a statement whose filename holds "2002", next
\* to the case of a filename that holds "1012" as well
C28_Witness ==
    /\ Parsed
    /\ IsSome(BeforeHint.restanzen_gemeinde)
    /\ ~BeforeHint.is_negative
    /\ Val(BeforeHint.raw_restanzen) > 0
    /\ Val(parsed).filename.kw = {"2002"}
    /\ Val(parsed).is_negative
    /\ Val(parsed).restanzen_gemeinde = BeforeHint.raw_restanzen

-----------------------------------------------------------------------------
(* The reported totals of an audit result, checked under SpecAudit *)

\* C29: in every audit result a reported total is absent exactly when the
\* item list it sums is empty, so MATCH and MISMATCH report both totals and
\* INCOMPLETE exactly one, also when the ledger total is 0.00.
C29_TotalsAgreeWithStatus ==
    Audited =>
        \A k \in RuleIdx :
            LET r == audit_results[k]
            IN  /\ IsNone(r.tax_total) <=> r.tax_items = <<>>
                /\ IsNone(r.fibu_total) <=> r.fibu_items = <<>>
                /\ r.status \in {"MATCH", "MISMATCH"}
                     => IsSome(r.tax_total) /\ IsSome(r.fibu_total)
                /\ r.status = "INCOMPLETE"
                     => IsSome(r.tax_total) # IsSome(r.fibu_total)

-----------------------------------------------------------------------------
(* Specification SpecSession: one session from /analyze through /reprocess *)
(* and DELETE /sessions/{id}.  files holds the files of the request, each  *)
(* with what happened to it and whether file_storage[session_id] holds it; *)
(* response is the answer of /analyze, parsed that of the latest later     *)
(* request.                                                                *)

MaxSessionFiles == 2

\* the documents a request is drawn from: the annual statement, the
\* withholding-tax statement, the 1012.00 ledger and a residual statement
SessionDocIds == {1, 2, 4, 6}

\* what happens to a file in /analyze: "skipped" (no PDF), "unread" (the
\* read raises), "delivered", "timeout" (no result within 60 s), "error"
\* (the parse task raises)
SessionFiles ==
    { [doc |-> 0, outcome |-> "skipped"] } \cup
    { [doc |-> d, outcome |-> o] :
        d \in SessionDocIds,
        o \in {"unread", "delivered", "timeout", "error"} }

Requests == UNION { [1..n -> SessionFiles] : n \in 0..MaxSessionFiles }

\* file_storage[session_id].append(...) comes after the read and before the
\* parse
IsStored(outcome) == outcome \in {"delivered", "timeout", "error"}

NoFacts == [tax |-> <<>>, fibu |-> <<>>, er |-> <<>>, bilanz |-> <<>>]

\* the same bytes give the same floats in every request: the direction of
\* rounding is one choice for all totals of the session's documents, whose
\* amounts are whole centimes
RoundingChoices == { [s \in RoundSites |-> b] : b \in BOOLEAN }

RECURSIVE RouteFiles(_, _, _)
\* the loop over the files: a delivered document is routed into the lists,
\* every other file is passed over; outcomes[k] is what happens to entries[k]
RouteFiles(entries, outcomes, facts) ==
    IF entries = <<>> THEN facts
    ELSE RouteFiles(Tail(entries), Tail(outcomes),
             IF outcomes[1] = "delivered"
             THEN Route(facts, parse_pdf(ScenarioDoc(entries[1].doc,
                                                     entries[1].pos)))
             ELSE facts)

\* file_storage[session_id]
StoredFiles == SelectSeq(files, LAMBDA e : e.stored)

InitSession ==
    /\ tax_docs = <<>>
    /\ fibu_docs = <<>>
    /\ er_docs = <<>>
    /\ bilanz_docs = <<>>
    /\ audit_results = <<>>
    /\ pc = "start"
    /\ doc_tables = <<>>
    /\ doc_lines = <<>>
    /\ parsed = None
    /\ files = <<>>
    /\ response = None

\* POST /analyze
Analyze ==
    /\ pc = "start"
    /\ \E req \in Requests, up \in RoundingChoices :
         /\ files' = [k \in DOMAIN req |->
                         [doc |-> req[k].doc, pos |-> k,
                          outcome |-> req[k].outcome,
                          stored |-> IsStored(req[k].outcome)]]
         /\ \E f \in {RouteFiles(files', [k \in DOMAIN req |->
                                              req[k].outcome], NoFacts)} :
               SetFacts(f)
         /\ audit_results' = perform_audit_with_breakdown(
                                  tax_docs', fibu_docs', er_docs',
                                  bilanz_docs', up)
         /\ response' = Some([results |-> audit_results',
                              files_processed |-> Len(req),
                              tax_files |-> Len(tax_docs'),
                              fibu_files |-> Len(fibu_docs'),
                              annual_report_files |->
                                  Len(er_docs') + Len(bilanz_docs')])
    /\ pc' = "session"
    /\ UNCHANGED docVars

\* POST /reprocess: the stored files are parsed again, each within 30 s
Reprocess ==
    /\ pc \in {"session", "deleted"}
    /\ IF StoredFiles = <<>>
       THEN /\ parsed' = Some([request |-> "reprocess", error |-> TRUE,
                               results |-> None])
            /\ UNCHANGED <<tax_docs, fibu_docs, er_docs, bilanz_docs,
                           audit_results>>
       ELSE \E outcomes \in [DOMAIN StoredFiles ->
                                {"delivered", "timeout", "error"}],
               up \in RoundingChoices :
               /\ \E f \in {RouteFiles(StoredFiles, outcomes, NoFacts)} :
                     SetFacts(f)
               /\ audit_results' = perform_audit_with_breakdown(
                                        tax_docs', fibu_docs', er_docs',
                                        bilanz_docs', up)
               /\ parsed' = Some([request |-> "reprocess",
                                  error |-> FALSE,
                                  results |-> Some(audit_results'),
                                  files_processed |-> Len(StoredFiles),
                                  tax_files |-> Len(tax_docs'),
                                  fibu_files |-> Len(fibu_docs'),
                                  delivered |->
                                     \A k \in DOMAIN outcomes :
                                        outcomes[k] = "delivered"])
    /\ UNCHANGED <<pc, files, response, doc_tables, doc_lines>>

\* DELETE /sessions/{session_id}: the database call succeeds and the entry
\* of file_storage is deleted, or it raises and nothing is deleted
DeleteSession ==
    /\ pc \in {"session", "deleted"}
    /\ \E ok \in BOOLEAN :
         IF ok
         THEN /\ files' = [k \in DOMAIN files |->
                              [files[k] EXCEPT !.stored = FALSE]]
              /\ pc' = "deleted"
              /\ parsed' = Some([request |-> "delete", status |-> "ok"])
         ELSE /\ parsed' = Some([request |-> "delete", status |-> "error"])
              /\ UNCHANGED <<files, pc>>
    /\ UNCHANGED <<response, doc_tables, doc_lines>>
    /\ UNCHANGED auditVars

NextSession == Analyze \/ Reprocess \/ DeleteSession

SpecSession == InitSession /\ [][NextSession]_vars

(* Claims about the session, checked under SpecSession *)

\* in /analyze no document timed out or raised
CleanAnalysis ==
    \A k \in DOMAIN files : files[k].outcome \in {"skipped", "delivered"}

Reprocessed == IsSome(parsed) /\ Val(parsed).request = "reprocess"

\* C30: for a session of /analyze in which no document timed out or raised,
\* every /reprocess returns the R805 and R806 results of /analyze; after a
\* successful delete_session /reprocess returns the no-files error and no
\* results.
C30_ReprocessRepeatsAnalysis ==
    /\ (pc = "session" /\ Reprocessed /\ CleanAnalysis)
          => Val(parsed).results = Some(Val(response).results)
    /\ (pc = "deleted" /\ Reprocessed)
          => Val(parsed).error /\ IsNone(Val(parsed).results)

=============================================================================
